---- MODULE Spec2Model ----
(***************************************************************************)
(* Model of mysh's job execution engine (mysh_cmds.c): execute_job, the    *)
(* in-process builtin fast path, run_simple_command, run_pipeline, the     *)
(* descriptor wiring of the children and the builtins.                     *)
(*                                                                         *)
(* Strings of the program are sequences of one-character strings, so that  *)
(* strchr / strcmp are computed on the characters.  A descriptor table is  *)
(* a function from descriptor numbers to open file descriptions.           *)
(***************************************************************************)
EXTENDS Integers, Sequences, FiniteSets, TLC

(***************************************************************************)
(* Bounds of the model.                                                    *)
(***************************************************************************)
MaxProcs == 3       \* longest pipeline executed
MaxFd    == 9       \* size of a descriptor table (RLIMIT_NOFILE)
MaxParseTokens == 5 \* longest line handed to parse_line alone, in words
MaxLineLen == 5     \* longest line handed to parse_line alone, in characters
MaxLines == 2       \* lines of a session's input
BufSize  == 10      \* size of the session loop's buffer: INPUT_BUFFER_SIZE,
                    \* 4096 in mysh.h, scaled to the lines of the model

(***************************************************************************)
(* Program constants.                                                      *)
(***************************************************************************)
STDIN_FILENO  == 0
STDOUT_FILENO == 1
STDERR_FILENO == 2
NOT_FOUND_STATUS == 127

EXEC_CONTINUE == "EXEC_CONTINUE"
EXEC_EXIT     == "EXEC_EXIT"
EXEC_DIE      == "EXEC_DIE"

\* A NULL char pointer: no string of characters equals it.
NULL == <<"NULL">>

(***************************************************************************)
(* The words the jobs of the model are made of.                            *)
(***************************************************************************)
Str_cd    == <<"c","d">>
Str_pwd   == <<"p","w","d">>
Str_which == <<"w","h","i","c","h">>
Str_exit  == <<"e","x","i","t">>
Str_die   == <<"d","i","e">>
Str_ls    == <<"l","s">>
Str_cat   == <<"c","a","t">>
Str_nf    == <<"n","f">>              \* in no search directory
Str_slash == <<"/","x">>              \* a path that does not exist
Str_a     == <<"a">>
Str_b     == <<"b">>

DirA == <<"/","a">>
DirB == <<"/","b">>
Dirs == {DirA, DirB}                   \* directories chdir() can enter

File_in   == <<"i","n">>              \* readable file
File_out  == <<"o","u","t">>          \* writable file
File_miss == <<"n","o">>              \* neither readable nor creatable

Readable == {File_in, File_out}
Writable == {File_out, File_in}

\* executable files of the file system
Executables ==
  { <<"/","b","i","n","/","l","s">>,
    <<"/","u","s","r","/","b","i","n","/","l","s">>,
    <<"/","b","i","n","/","c","a","t">> }

(***************************************************************************)
(* Open file descriptions and descriptor tables.                           *)
(***************************************************************************)
Closed     == [k |-> "closed", n |-> <<>>, id |-> 0]
StdFile(s) == [k |-> "std",    n |-> s,    id |-> 0]
DevNull    == [k |-> "null",   n |-> <<>>, id |-> 0]
FileR(p)   == [k |-> "file",   n |-> p,    id |-> 0]
FileW(p)   == [k |-> "file",   n |-> p,    id |-> 1]
PipeR(u)   == [k |-> "pipe",   n |-> <<"r">>, id |-> u]
PipeW(u)   == [k |-> "pipe",   n |-> <<"w">>, id |-> u]

FdRange == 0 .. (MaxFd - 1)

InitFds == [f \in FdRange |->
              IF f = STDIN_FILENO  THEN StdFile(<<"0">>)
              ELSE IF f = STDOUT_FILENO THEN StdFile(<<"1">>)
              ELSE IF f = STDERR_FILENO THEN StdFile(<<"2">>)
              ELSE Closed]

AllClosed == [f \in FdRange |-> Closed]

FreeFds(t) == {f \in FdRange : t[f] = Closed}

\* the descriptor open(), dup() and pipe() hand out: the lowest free one
LowestFree(t) == CHOOSE f \in FreeFds(t) : \A g \in FreeFds(t) : f <= g

\* close(fd); close(-1) and a close of a closed descriptor change nothing
CloseFd(t, fd) == IF fd \in FdRange THEN [t EXCEPT ![fd] = Closed] ELSE t

\* dup2(oldfd, newfd) when it succeeds
Dup2(t, oldfd, newfd) == [t EXCEPT ![newfd] = t[oldfd]]


(***************************************************************************)
(* System calls on a descriptor table.  ok is the environment's choice of  *)
(* success; a call that needs a new descriptor also fails when the table   *)
(* is full (EMFILE).  The result is [rc, fds]: rc is the new descriptor    *)
(* or -1.                                                                  *)
(***************************************************************************)
SysOpen(t, ofd, ok) ==
  IF ok /\ FreeFds(t) # {}
    THEN [rc |-> LowestFree(t), fds |-> [t EXCEPT ![LowestFree(t)] = ofd]]
    ELSE [rc |-> -1, fds |-> t]

SysDup(t, fd, ok) ==
  IF fd \in FdRange /\ t[fd] # Closed
    THEN SysOpen(t, t[fd], ok)
    ELSE [rc |-> -1, fds |-> t]

SysDup2(t, oldfd, newfd, ok) ==
  IF ok /\ oldfd \in FdRange /\ newfd \in FdRange /\ t[oldfd] # Closed
    THEN [rc |-> newfd, fds |-> Dup2(t, oldfd, newfd)]
    ELSE [rc |-> -1, fds |-> t]

open_input_file(t, path) == SysOpen(t, FileR(path), path \in Readable)

open_output_file(t, path) == SysOpen(t, FileW(path), path \in Writable)

\* the environment's choices for the dup2 calls of one descriptor set-up
\* (a set-up stops at its first failure, so one failing call is chosen)
EnvChoices == { [nullOpen |-> f # 1, nullDup2 |-> f # 2,
                 inDup2 |-> f # 3, outDup2 |-> f # 4] : f \in 0 .. 4 }

\* mutant: standard input is left alone in batch mode too
setup_stdin_for_batch_Noop(t, input_is_tty, e) == [rc |-> 0, fds |-> t]

\* lines 466-487
setup_stdin_for_batch(t, input_is_tty, e) ==
  IF input_is_tty THEN [rc |-> 0, fds |-> t]
  ELSE LET o == SysOpen(t, DevNull, e.nullOpen) IN
       IF o.rc < 0 THEN [rc |-> -1, fds |-> t]
       ELSE LET d == SysDup2(o.fds, o.rc, STDIN_FILENO, e.nullDup2) IN
            IF d.rc < 0 THEN [rc |-> -1, fds |-> CloseFd(o.fds, o.rc)]
            ELSE [rc |-> 0, fds |-> CloseFd(d.fds, o.rc)]

\* dup2 an opened file o onto target, then close the opened descriptor
RedirectTo(o, target, ok) ==
  LET d == SysDup2(o.fds, o.rc, target, ok) IN
  IF d.rc < 0 THEN [rc |-> -1, fds |-> CloseFd(o.fds, o.rc)]
  ELSE [rc |-> 0, fds |-> CloseFd(d.fds, o.rc)]

setup_redirection(t, infile, outfile, input_is_tty, e) ==
  LET b == setup_stdin_for_batch(t, input_is_tty, e) IN
  IF b.rc < 0 THEN [rc |-> -1, fds |-> b.fds]
  ELSE
    LET i == IF infile = NULL THEN [rc |-> 0, fds |-> b.fds]
             ELSE LET o == open_input_file(b.fds, infile) IN
                  IF o.rc < 0 THEN [rc |-> -1, fds |-> o.fds]
                  ELSE RedirectTo(o, STDIN_FILENO, e.inDup2)
    IN
    IF i.rc < 0 THEN i
    ELSE IF outfile = NULL THEN [rc |-> 0, fds |-> i.fds]
    ELSE LET o == open_output_file(i.fds, outfile) IN
         IF o.rc < 0 THEN [rc |-> -1, fds |-> o.fds]
         ELSE RedirectTo(o, STDOUT_FILENO, e.outDup2)

(***************************************************************************)
(* Builtins and program resolution.                                        *)
(***************************************************************************)
is_builtin(name) ==
  /\ name # NULL
  /\ name \in {Str_cd, Str_pwd, Str_which, Str_exit, Str_die}

SearchDirs ==
  << <<"/","u","s","r","/","l","o","c","a","l","/","b","i","n">>,
     <<"/","u","s","r","/","b","i","n">>,
     <<"/","b","i","n">> >>

RECURSIVE SearchFrom(_, _)
SearchFrom(d, cmd_name) ==
  IF d > Len(SearchDirs) THEN NULL
  ELSE LET full == SearchDirs[d] \o <<"/">> \o cmd_name IN
       IF full \in Executables THEN full ELSE SearchFrom(d + 1, cmd_name)

resolve_program_path(cmd_name) ==
  IF cmd_name = NULL THEN NULL
  ELSE IF \E c \in 1 .. Len(cmd_name) : cmd_name[c] = "/" THEN cmd_name
  ELSE IF is_builtin(cmd_name) THEN NULL
  ELSE SearchFrom(1, cmd_name)

\* A builtin's result: its return value, the control action it stores, the
\* working directory it leaves and what it writes to stdout and stderr.
BuiltinResult(rc, act, dir, o, e) ==
  [rc |-> rc, action |-> act, cwd |-> dir, out |-> o, err |-> e]

\* mutant: cd without an argument goes to a home directory
builtin_cd_Home(argv, dir) ==
  IF Len(argv) = 1 THEN BuiltinResult(0, EXEC_CONTINUE, DirB, <<>>, <<>>)
  ELSE IF Len(argv) # 2
    THEN BuiltinResult(1, EXEC_CONTINUE, dir, <<>>, <<"c","d",":"," ","a","r","g","s","\n">>)
  ELSE IF argv[2] \notin Dirs
    THEN BuiltinResult(1, EXEC_CONTINUE, dir, <<>>, <<"c","d",":"," ","e","r","r","\n">>)
  ELSE BuiltinResult(0, EXEC_CONTINUE, argv[2], <<>>, <<>>)

\* lines 617-637
builtin_cd(argv, dir) ==
  IF Len(argv) # 2
    THEN BuiltinResult(1, EXEC_CONTINUE, dir, <<>>, <<"c","d",":"," ","a","r","g","s","\n">>)
  ELSE IF argv[2] \notin Dirs
    THEN BuiltinResult(1, EXEC_CONTINUE, dir, <<>>, <<"c","d",":"," ","e","r","r","\n">>)
  ELSE BuiltinResult(0, EXEC_CONTINUE, argv[2], <<>>, <<>>)

builtin_pwd(argv, dir) ==
  IF Len(argv) > 1
    THEN BuiltinResult(1, EXEC_CONTINUE, dir, <<>>, <<"p","w","d",":"," ","a","r","g","s","\n">>)
  ELSE BuiltinResult(0, EXEC_CONTINUE, dir, dir \o <<"\n">>, <<>>)

\* mutant: which names a builtin as one, with success
builtin_which_ReportsBuiltin(argv, dir) ==
  IF Len(argv) # 2 THEN BuiltinResult(1, EXEC_CONTINUE, dir, <<>>, <<>>)
  ELSE IF is_builtin(argv[2])
    THEN BuiltinResult(0, EXEC_CONTINUE, dir, argv[2] \o <<"\n">>, <<>>)
  ELSE IF resolve_program_path(argv[2]) = NULL
    THEN BuiltinResult(1, EXEC_CONTINUE, dir, <<>>, <<>>)
  ELSE BuiltinResult(0, EXEC_CONTINUE, dir,
                     resolve_program_path(argv[2]) \o <<"\n">>, <<>>)

\* lines 659-689
builtin_which(argv, dir) ==
  IF Len(argv) # 2 THEN BuiltinResult(1, EXEC_CONTINUE, dir, <<>>, <<>>)
  ELSE IF is_builtin(argv[2]) THEN BuiltinResult(1, EXEC_CONTINUE, dir, <<>>, <<>>)
  ELSE IF resolve_program_path(argv[2]) = NULL
    THEN BuiltinResult(1, EXEC_CONTINUE, dir, <<>>, <<>>)
  ELSE BuiltinResult(0, EXEC_CONTINUE, dir,
                     resolve_program_path(argv[2]) \o <<"\n">>, <<>>)

builtin_exit(argv, dir) == BuiltinResult(0, EXEC_EXIT, dir, <<>>, <<>>)

RECURSIVE JoinArgs(_, _)
JoinArgs(argv, i) ==
  IF i > Len(argv) THEN <<>>
  ELSE (IF i > 2 THEN <<" ">> ELSE <<>>) \o argv[i] \o JoinArgs(argv, i + 1)

\* mutant: the arguments are written without the newline
builtin_die_NoNewline(argv, dir) ==
  BuiltinResult(1, EXEC_DIE, dir, <<>>,
                IF Len(argv) > 1 THEN JoinArgs(argv, 2) ELSE <<>>)

\* lines 703-722
builtin_die(argv, dir) ==
  BuiltinResult(1, EXEC_DIE, dir, <<>>,
                IF Len(argv) > 1 THEN JoinArgs(argv, 2) \o <<"\n">> ELSE <<>>)

\* run_builtin_parent: [ret, status, action, cwd, out, err]
run_builtin_parent(argv, dir) ==
  LET r == IF argv = <<>> THEN BuiltinResult(0, EXEC_CONTINUE, dir, <<>>, <<>>)
           ELSE IF argv[1] = Str_cd    THEN builtin_cd(argv, dir)
           ELSE IF argv[1] = Str_pwd   THEN builtin_pwd(argv, dir)
           ELSE IF argv[1] = Str_which THEN builtin_which(argv, dir)
           ELSE IF argv[1] = Str_exit  THEN builtin_exit(argv, dir)
           ELSE IF argv[1] = Str_die   THEN builtin_die(argv, dir)
           ELSE BuiltinResult(1, EXEC_CONTINUE, dir, <<>>, <<>>)
  IN [ret    |-> IF argv = <<>> \/ is_builtin(argv[1]) THEN 0 ELSE -1,
      status |-> r.rc, action |-> r.action, cwd |-> r.cwd,
      out |-> r.out, err |-> r.err]

\* run_builtin_child: the value it returns to the forked child; the control
\* action goes to a dummy and cd is not performed at all.
run_builtin_child(argv, dir) ==
  IF argv = <<>> THEN BuiltinResult(0, EXEC_CONTINUE, dir, <<>>, <<>>)
  ELSE IF argv[1] = Str_cd    THEN BuiltinResult(0, EXEC_CONTINUE, dir, <<>>, <<>>)
  ELSE IF argv[1] = Str_pwd   THEN builtin_pwd(argv, dir)
  ELSE IF argv[1] = Str_which THEN builtin_which(argv, dir)
  ELSE IF argv[1] = Str_exit  THEN builtin_exit(argv, dir)
  ELSE IF argv[1] = Str_die   THEN builtin_die(argv, dir)
  ELSE BuiltinResult(0, EXEC_CONTINUE, dir, <<>>, <<>>)


(***************************************************************************)
(* Tokenizer and parser (mysh_core.c).  A line is the sequence of its      *)
(* characters up to the terminating NUL.  An argument array is the         *)
(* sequence of the entries written to it so far, the NULL entries          *)
(* included.                                                               *)
(***************************************************************************)
MAX_TOKENS   == 1024
MAX_COMMANDS == 64
MAX_ARGS     == 64

COND_NONE == "COND_NONE"
COND_AND  == "COND_AND"
COND_OR   == "COND_OR"

Str_and == <<"a","n","d">>
Str_or  == <<"o","r">>
Str_bar == <<"|">>
Str_lt  == <<"<">>
Str_gt  == <<">">>

isspace(c) == c \in {" ", "\t", "\n", "\r"}

\* mutant: > is a word character
IsOperator_NoGt(c) == c \in {"|", "<"}

\* lines 84 and 96: the characters that are tokens of their own
IsOperator(c) == c \in {"|", "<", ">"}

\* lines 77 and 106: skip whitespace from position p
RECURSIVE SkipSpace(_, _)
SkipSpace(l, p) ==
  IF p <= Len(l) /\ isspace(l[p]) THEN SkipSpace(l, p + 1) ELSE p

\* lines 94-98: the end of the word that starts at p
RECURSIVE WordEnd(_, _)
WordEnd(l, p) ==
  IF p <= Len(l) /\ ~isspace(l[p]) /\ ~IsOperator(l[p])
    THEN WordEnd(l, p + 1) ELSE p

\* lines 84-106: one turn of the loop of simple_tokenize
TokenizeStep(l, p, tokens) ==
  IF IsOperator(l[p])
    THEN [p |-> SkipSpace(l, p + 1), tokens |-> Append(tokens, <<l[p]>>)]
  ELSE IF isspace(l[p]) THEN [p |-> SkipSpace(l, p + 1), tokens |-> tokens]
  ELSE [p |-> SkipSpace(l, WordEnd(l, p)),
        tokens |-> Append(tokens, SubSeq(l, p, WordEnd(l, p) - 1))]

\* lines 79-107: the loop of simple_tokenize
RECURSIVE TokenizeFrom(_, _, _)
TokenizeFrom(l, p, tokens) ==
  IF ~(p <= Len(l) /\ Len(tokens) < MAX_TOKENS) THEN tokens
  ELSE IF l[p] = "#" THEN tokens
  ELSE LET s == TokenizeStep(l, p, tokens) IN TokenizeFrom(l, s.p, s.tokens)

\* lines 71-110: the tokens of a line; token_count is their number
simple_tokenize(l) == TokenizeFrom(l, SkipSpace(l, 1), <<>>)

\* a job_t after memset(0) / = {0}
EmptyJob == [cond |-> COND_NONE, infile |-> NULL, outfile |-> NULL,
             num_procs |-> 0, argvv |-> <<>>]

\* arr[idx] = v on an argument array (idx counts from 0)
SetAt(arr, idx, v) ==
  IF idx < Len(arr) THEN [arr EXCEPT ![idx + 1] = v] ELSE Append(arr, v)

\* the locals of parse_line: temp_argvs, current_argc and the job's fields
ParseStart(c) == [cond |-> c, infile |-> NULL, outfile |-> NULL,
                  argvs |-> << <<NULL>> >>, argc |-> 0]

ParseError == [ret |-> -1, job |-> EmptyJob]

\* mutant: the line may end with an empty command
ParseFinish_NoCheck(st) ==
  [ret |-> 1,
   job |-> [cond |-> st.cond, infile |-> st.infile, outfile |-> st.outfile,
            num_procs |-> Len(st.argvs),
            argvv |-> [st.argvs EXCEPT ![Len(st.argvs)] = SetAt(@, st.argc, NULL)]]]

\* mutant: the redirect filenames are exchanged
ParseFinish_SwapRedirects(st) ==
  IF st.argc = 0 THEN ParseError
  ELSE
    [ret |-> 1,
     job |-> [cond |-> st.cond, infile |-> st.outfile, outfile |-> st.infile,
              num_procs |-> Len(st.argvs),
              argvv |-> [st.argvs EXCEPT ![Len(st.argvs)] = SetAt(@, st.argc, NULL)]]]

\* lines 259-285: the end of the token loop
ParseFinish(st) ==
  IF st.argc = 0 THEN ParseError
  ELSE
    [ret |-> 1,
     job |-> [cond |-> st.cond, infile |-> st.infile, outfile |-> st.outfile,
              num_procs |-> Len(st.argvs),
              argvv |-> [st.argvs EXCEPT ![Len(st.argvs)] = SetAt(@, st.argc, NULL)]]]

\* mutant: a second redirection of the same direction replaces the first
ParseToken_LastWins(tokens, ct, st) ==
  LET token == tokens[ct + 1]
      idx   == Len(st.argvs) - 1          \* current_cmd_idx
      Stop  == [err |-> TRUE, ct |-> ct, st |-> st]
  IN
  IF token = Str_bar THEN
    IF st.argc = 0 THEN Stop
    ELSE IF idx >= MAX_COMMANDS - 1 THEN Stop
    ELSE [err |-> FALSE, ct |-> ct + 1,
          st |-> [st EXCEPT !.argvs = Append([@ EXCEPT ![idx + 1] = SetAt(@, st.argc, NULL)],
                                             <<NULL>>),
                            !.argc = 0]]
  ELSE IF token = Str_lt \/ token = Str_gt THEN
    IF ct + 1 >= Len(tokens) THEN Stop
    ELSE IF token = Str_lt THEN
      [err |-> FALSE, ct |-> ct + 2, st |-> [st EXCEPT !.infile = tokens[ct + 2]]]
    ELSE
      [err |-> FALSE, ct |-> ct + 2, st |-> [st EXCEPT !.outfile = tokens[ct + 2]]]
  ELSE IF st.argc = 0 /\ idx > 0 /\ (token = Str_and \/ token = Str_or)
    THEN Stop
  ELSE IF st.argc >= MAX_ARGS - 1 THEN Stop
  ELSE [err |-> FALSE, ct |-> ct + 1,
        st |-> [st EXCEPT !.argvs[idx + 1] = SetAt(SetAt(@, st.argc, token), st.argc + 1, NULL),
                          !.argc = @ + 1]]

\* mutant: and / or are ordinary first words of a stage after a pipe
ParseToken_AnyWord(tokens, ct, st) ==
  LET token == tokens[ct + 1]
      idx   == Len(st.argvs) - 1          \* current_cmd_idx
      Stop  == [err |-> TRUE, ct |-> ct, st |-> st]
  IN
  IF token = Str_bar THEN
    IF st.argc = 0 THEN Stop
    ELSE IF idx >= MAX_COMMANDS - 1 THEN Stop
    ELSE [err |-> FALSE, ct |-> ct + 1,
          st |-> [st EXCEPT !.argvs = Append([@ EXCEPT ![idx + 1] = SetAt(@, st.argc, NULL)],
                                             <<NULL>>),
                            !.argc = 0]]
  ELSE IF token = Str_lt \/ token = Str_gt THEN
    IF ct + 1 >= Len(tokens) THEN Stop
    ELSE IF token = Str_lt THEN
      IF st.infile # NULL THEN Stop
      ELSE [err |-> FALSE, ct |-> ct + 2, st |-> [st EXCEPT !.infile = tokens[ct + 2]]]
    ELSE
      IF st.outfile # NULL THEN Stop
      ELSE [err |-> FALSE, ct |-> ct + 2, st |-> [st EXCEPT !.outfile = tokens[ct + 2]]]
  ELSE IF st.argc >= MAX_ARGS - 1 THEN Stop
  ELSE [err |-> FALSE, ct |-> ct + 1,
        st |-> [st EXCEPT !.argvs[idx + 1] = SetAt(SetAt(@, st.argc, token), st.argc + 1, NULL),
                          !.argc = @ + 1]]

\* lines 172-256: one turn of the token loop on the token at ct
\* (current_token, from 0): the locals after it, or err for goto parse_error
ParseToken(tokens, ct, st) ==
  LET token == tokens[ct + 1]
      idx   == Len(st.argvs) - 1          \* current_cmd_idx
      Stop  == [err |-> TRUE, ct |-> ct, st |-> st]
  IN
  IF token = Str_bar THEN
    IF st.argc = 0 THEN Stop
    ELSE IF idx >= MAX_COMMANDS - 1 THEN Stop
    ELSE [err |-> FALSE, ct |-> ct + 1,
          st |-> [st EXCEPT !.argvs = Append([@ EXCEPT ![idx + 1] = SetAt(@, st.argc, NULL)],
                                             <<NULL>>),
                            !.argc = 0]]
  ELSE IF token = Str_lt \/ token = Str_gt THEN
    IF ct + 1 >= Len(tokens) THEN Stop
    ELSE IF token = Str_lt THEN
      IF st.infile # NULL THEN Stop
      ELSE [err |-> FALSE, ct |-> ct + 2, st |-> [st EXCEPT !.infile = tokens[ct + 2]]]
    ELSE
      IF st.outfile # NULL THEN Stop
      ELSE [err |-> FALSE, ct |-> ct + 2, st |-> [st EXCEPT !.outfile = tokens[ct + 2]]]
  ELSE IF st.argc = 0 /\ idx > 0 /\ (token = Str_and \/ token = Str_or)
    THEN Stop
  ELSE IF st.argc >= MAX_ARGS - 1 THEN Stop
  ELSE [err |-> FALSE, ct |-> ct + 1,
        st |-> [st EXCEPT !.argvs[idx + 1] = SetAt(SetAt(@, st.argc, token), st.argc + 1, NULL),
                          !.argc = @ + 1]]

\* lines 171-257: the token loop; ct is current_token (from 0)
RECURSIVE ParseTokens(_, _, _)
ParseTokens(tokens, ct, st) ==
  IF ct >= Len(tokens) THEN ParseFinish(st)
  ELSE LET r == ParseToken(tokens, ct, st) IN
       IF r.err THEN ParseError ELSE ParseTokens(tokens, r.ct, r.st)

\* mutant: the conditional word stays the first argument of the first stage
parse_line_KeepWord(l, jb) ==
  LET tokens == simple_tokenize(l)
      c == IF tokens[1] = Str_and THEN COND_AND
           ELSE IF tokens[1] = Str_or THEN COND_OR
           ELSE COND_NONE
  IN
  IF Len(tokens) = 0 THEN [ret |-> 0, job |-> jb]
  ELSE IF c # COND_NONE /\ Len(tokens) = 1 THEN ParseError
  ELSE ParseTokens(tokens, 0, ParseStart(c))

\* lines 120-311: [ret, job]; jb is the caller's job before the call
parse_line(l, jb) ==
  LET tokens == simple_tokenize(l)
      c == IF tokens[1] = Str_and THEN COND_AND
           ELSE IF tokens[1] = Str_or THEN COND_OR
           ELSE COND_NONE
      first == IF c = COND_NONE THEN 0 ELSE 1
  IN
  IF Len(tokens) = 0 THEN [ret |-> 0, job |-> jb]
  ELSE IF first >= Len(tokens)
    THEN IF c # COND_NONE THEN ParseError
         ELSE [ret |-> 1, job |-> [EmptyJob EXCEPT !.cond = c]]
  ELSE ParseTokens(tokens, first, ParseStart(c))

\* the argument vector execute_job sees in an argument array: the entries
\* before the first NULL
RECURSIVE ArgvOf(_)
ArgvOf(arr) ==
  IF arr = <<>> \/ Head(arr) = NULL THEN <<>>
  ELSE <<Head(arr)>> \o ArgvOf(Tail(arr))

\* the words of the lines handed to parse_line
ParseWords ==
  { Str_ls, File_in, Str_and, Str_or, Str_bar, Str_lt, Str_gt, <<"#">> }

RECURSIVE JoinWords(_)
JoinWords(ws) ==
  IF ws = <<>> THEN <<>>
  ELSE IF Len(ws) = 1 THEN ws[1]
  ELSE ws[1] \o <<" ">> \o JoinWords(Tail(ws))

\* lines of up to MaxParseTokens words separated by single spaces
ParseLines ==
  { JoinWords(ws) : ws \in UNION { [1 .. n -> ParseWords] : n \in 0 .. MaxParseTokens } }

\* the characters of the lines handed to the tokenizer
LineChars == {"a", " ", "|", "<", ">", "#"}

\* lines of up to MaxLineLen characters
CharLines == UNION { [1 .. n -> LineChars] : n \in 0 .. MaxLineLen }

\* a line of n words a, separated by single spaces
ArgLine(n) == [c \in 1 .. 2 * n - 1 |-> IF c % 2 = 1 THEN "a" ELSE " "]

\* lines around the limit of arguments of a stage: a stage of n arguments,
\* alone or as the second stage of a pipeline
LimitArgs == {1, 2} \cup (MAX_ARGS - 2 .. MAX_ARGS + 2)

LimitLines ==
  { pre \o ArgLine(n) : pre \in {<<>>, <<"a", "|">>}, n \in LimitArgs }

\* lines without a token: empty, whitespace only, comment only
BlankLines ==
  { <<>>, <<" ", " ">>, <<"#", " ", "a">>, <<" ", "#">> }

\* lines handed to the tokenizer one loop turn at a time: lines around the
\* size of the token array, short ones and lines without a token
TokenLoopLines ==
  { ArgLine(n) : n \in {1, MAX_TOKENS - 1, MAX_TOKENS, MAX_TOKENS + 1} }
    \cup { <<" ", "a", "|", "a", " ", " ", "#", "a">>, <<"<", "a", "#", " ", ">">>,
           <<"a", " ", "<", "a", ">", "a", "|", "a">>, <<"o", "r">>, <<"a", "|">> }
    \cup BlankLines

(***************************************************************************)
(* Jobs handed to execute_job.  argvv is the sequence of the stages'       *)
(* argument vectors (without the terminating NULL); the empty vector <<>>  *)
(* is a stage whose argv or argv[0] is NULL.                               *)
(***************************************************************************)
SingleArgvs ==
  { <<Str_cd, DirB>>, <<Str_cd>>, <<Str_cd, File_miss>>,
    <<Str_pwd>>, <<Str_pwd, Str_a>>,
    <<Str_which, Str_ls>>, <<Str_which, Str_cd>>, <<Str_which, Str_nf>>,
    <<Str_which, Str_pwd>>, <<Str_which, Str_which>>,
    <<Str_which, Str_exit>>, <<Str_which, Str_die>>,
    <<Str_exit>>, <<Str_die>>, <<Str_die, Str_a, Str_b>>,
    <<Str_ls>>, <<Str_cat>>, <<Str_nf>>, <<Str_slash>>, <<>> }

PipeArgvs ==
  { <<Str_cd, DirB>>, <<Str_exit>>, <<Str_die, Str_a>>,
    <<Str_ls>>, <<Str_cat>>, <<Str_nf>>, <<>> }

\* pipelines: at most two stages are something else than a plain ls
PipeArgvvs ==
  { vv \in UNION { [1 .. n -> PipeArgvs] : n \in 2 .. MaxProcs } :
      Len(vv) = 2 \/ Cardinality({s \in 1 .. Len(vv) : vv[s] # <<Str_ls>>}) <= 1 }

PlainArgvvs ==
  { vv \in PipeArgvvs : \A s \in 1 .. Len(vv) : vv[s] \in {<<Str_ls>>, <<Str_cat>>} }

MkJob(vv, inf, outf) == [argvv |-> vv, infile |-> inf, outfile |-> outf]

SingleJobs ==
  { MkJob(<<a>>, inf, outf) :
      a \in SingleArgvs, inf \in {NULL, File_in, File_miss},
      outf \in {NULL, File_out, File_miss} }

PipeJobs ==
  { MkJob(vv, NULL, NULL) : vv \in PipeArgvvs }
    \cup { MkJob(vv, File_in, File_out) : vv \in PlainArgvvs }

Jobs == {MkJob(<<>>, NULL, NULL)} \cup SingleJobs \cup PipeJobs

\* pipelines of programs only: ls writes and exits, cat copies its standard
\* input until end-of-file; every stage after the first is a cat
ProgramPipeJobs ==
  { MkJob(vv, NULL, NULL) :
      vv \in { w \in UNION { [1 .. n -> {<<Str_ls>>, <<Str_cat>>}] : n \in 2 .. MaxProcs } :
                 \A s \in 2 .. Len(w) : w[s] = <<Str_cat>> } }

\* the scan of execute_job for a stage named exit / die
has_die(j) ==
  \E s \in 1 .. Len(j.argvv) : j.argvv[s] # <<>> /\ j.argvv[s][1] = Str_die

has_exit(j) ==
  \E s \in 1 .. Len(j.argvv) : j.argvv[s] # <<>> /\ j.argvv[s][1] = Str_exit

\* mutant: only the first stage is scanned
ScanAction_FirstStage(j) ==
  IF Len(j.argvv) = 0 \/ j.argvv[1] = <<>> THEN EXEC_CONTINUE
  ELSE IF j.argvv[1][1] = Str_die THEN EXEC_DIE
  ELSE IF j.argvv[1][1] = Str_exit THEN EXEC_EXIT
  ELSE EXEC_CONTINUE

\* mutant: an exit stage takes precedence over a die stage
ScanAction_ExitFirst(j) ==
  IF has_exit(j) THEN EXEC_EXIT ELSE IF has_die(j) THEN EXEC_DIE ELSE EXEC_CONTINUE

\* lines 76-90 and the choice of the action at lines 192-198 and 221-227
ScanAction(j) ==
  IF has_die(j) THEN EXEC_DIE ELSE IF has_exit(j) THEN EXEC_EXIT ELSE EXEC_CONTINUE

\* mutant: cd is not taken on the in-process path
IsSingleBuiltin_NotCd(j) ==
  /\ Len(j.argvv) = 1
  /\ j.argvv[1] # <<>>
  /\ is_builtin(j.argvv[1][1])
  /\ j.argvv[1][1] # Str_cd

\* lines 95-98: one stage and its command is a builtin
IsSingleBuiltin(j) ==
  /\ Len(j.argvv) = 1
  /\ j.argvv[1] # <<>>
  /\ is_builtin(j.argvv[1][1])

(***************************************************************************)
(* Wait statuses.                                                          *)
(***************************************************************************)
Exited(c)    == [exited |-> TRUE,  code |-> c]
Signaled(s)  == [exited |-> FALSE, code |-> s]
NoStatus     == [exited |-> FALSE, code |-> 0]
WIFEXITED(w)   == w.exited
WEXITSTATUS(w) == w.code

CatPath == <<"/","b","i","n","/","c","a","t">>

\* how a program that was exec'ed may end: cat exits with 0 after it read
\* end-of-file or is killed by a signal, ls succeeds or fails
Outcomes(path) ==
  IF path = CatPath THEN {Exited(0), Signaled(9)}
  ELSE {Exited(0), Exited(3), Signaled(9)}

(***************************************************************************)
(* State.                                                                  *)
(***************************************************************************)
VARIABLES
  input_is_tty,   \* the flag the caller passes to every execute_job
  sigchld_ign,    \* the shell inherited SIGCHLD ignored: children are
                  \* reaped by the kernel and waitpid fails with ECHILD
  cwd,            \* working directory of the engine process
  fds,            \* descriptor table of the engine process
  pc,             \* position of the engine process
  job,            \* the job of the current execute_job call
  cmd_status,     \* *cmd_status
  action,         \* the value execute_job returned
  fp,             \* locals of the single-builtin path of execute_job
  pl,             \* locals of run_pipeline / run_simple_command
  child,          \* the children forked by the current call, by stage
  npipes,         \* pipes created so far (names the pipes)
  call,           \* what the current call did so far
  line,           \* the line handed to parse_line
  parsed,         \* what parse_line returned: [ret, job]
  sess,           \* read_and_execute_loop: its locals and the globals it uses
  tok             \* parse_line and its simple_tokenize, one loop turn at a
                  \* time: their locals

vars == <<input_is_tty, sigchld_ign, cwd, fds, pc, job, cmd_status, action,
          fp, pl, child, npipes, call, line, parsed, sess, tok>>

Stages == 0 .. (MaxProcs - 1)

NoJob == MkJob(<<>>, NULL, NULL)

\* cmdFds is the descriptor table the child had when it started its command
NoChild == [st |-> "none", fds |-> AllClosed, ws |-> NoStatus,
            waited |-> FALSE, wrc |-> 0, path |-> NULL, cwd |-> <<>>,
            started |-> FALSE, cmdFds |-> AllClosed]

\* out, err: what the builtin wrote to standard output and to the error
\* stream
FpInit == [saved_stdin |-> -1, saved_stdout |-> -1, redir_error |-> 0,
           status |-> 1, builtin_action |-> EXEC_CONTINUE,
           out |-> <<>>, err |-> <<>>]

PlInit == [pipes |-> <<>>, i |-> 0, k |-> 0, last_status |-> 1, fail |-> "none"]

\* cwd0, fds0: the engine's state when the call began; forks: children
\* forked by the call; ran: a builtin body ran in the engine's process
CallInit == [cwd0 |-> <<>>, fds0 |-> AllClosed, forks |-> 0, ran |-> FALSE]

NotParsed == [ret |-> 0, job |-> EmptyJob]

EXIT_SUCCESS == 0
EXIT_FAILURE == 1

\* the lines of the sessions of the model
Line_ls      == Str_ls
Line_bar     == Str_bar                                 \* a syntax error
Line_empty   == <<>>
Line_blank   == <<" ">>
Line_and_nf  == Str_and \o <<" ">> \o Str_nf
Line_or_ls   == Str_or \o <<" ">> \o Str_ls
Line_or_die  == Str_or \o <<" ">> \o Str_die \o <<" ">> \o Str_a
Line_nf_exit == Str_nf \o Str_bar \o Str_exit
\* a line that does not fit into the buffer
Line_long    == Str_ls \o [c \in 1 .. BufSize - 2 |-> " "]

SessLines ==
  { Line_ls, Line_bar, Line_empty, Line_blank, Line_and_nf, Line_or_ls,
    Line_or_die, Line_nf_exit, Line_long }

\* the bytes of an input of the lines ls; nl: the last line ends with \n
RECURSIVE ScriptOf(_, _)
ScriptOf(ls, nl) ==
  IF ls = <<>> THEN <<>>
  ELSE IF Len(ls) = 1 THEN ls[1] \o (IF nl THEN <<"\n">> ELSE <<>>)
  ELSE ls[1] \o <<"\n">> \o ScriptOf(Tail(ls), nl)

Scripts ==
  { ScriptOf(ls, nl) :
      ls \in UNION { [1 .. n -> SessLines] : n \in 0 .. MaxLines }, nl \in BOOLEAN }

\* read_and_execute_loop at its start, with the bytes in still to be read.
\* buffer holds the bytes_read bytes of the buffer; nexec, nlines, decided,
\* prev and ended record what the loop did: the calls of execute_job, the
\* lines handed to parse_line, what was decided for the last of them, the
\* last exit status before it, and why the loop ended.
SessInit(in) ==
  [pc |-> "read", input |-> in, buffer |-> <<>>, line_start |-> 0, i |-> 0,
   last_exit_status |-> 0, shell_exit_status |-> EXIT_SUCCESS,
   have_seen_command |-> FALSE, ret |-> -1,
   nexec |-> 0, nlines |-> 0, decided |-> "none", prev |-> 0, ended |-> "no"]

\* no session loop is running
SessNone == [SessInit(<<>>) EXCEPT !.pc = "none"]

\* parse_line in its simple_tokenize, at the loop of line 79: p is the
\* position in the line (from 1), tokens the entries written to the token
\* array, top the highest index of the array written so far, ret the value
\* simple_tokenize returned (token_count); ct and st are current_token and
\* the other locals of parse_line's own loop.  alloc counts the blocks that
\* were allocated since the first call and are not freed, mallocs the calls
\* of malloc of this call, nomem says that one of them failed, nul is the
\* position of a byte of the line that holds a '\0' (0: none), round counts
\* the calls of parse_line, frees those of free_job, and first is what the
\* first call returned
TokStart(l) ==
  [pc |-> "loop", p |-> SkipSpace(l, 1), tokens |-> <<>>, top |-> -1, ret |-> 0,
   ct |-> 0, st |-> ParseStart(COND_NONE),
   alloc |-> 0, mallocs |-> 0, nomem |-> FALSE, nul |-> 0,
   round |-> 1, frees |-> 0, first |-> NotParsed]

\* parse_line is not running one turn at a time
TokNone == [TokStart(<<>>) EXCEPT !.pc = "none"]

\* the engine before its first call
EngineInit ==
  /\ cwd = DirA
  /\ pc = "idle"
  /\ job = NoJob
  /\ cmd_status = 0
  /\ action = EXEC_CONTINUE
  /\ fp = FpInit
  /\ pl = PlInit
  /\ child = [s \in Stages |-> NoChild]
  /\ npipes = 0
  /\ call = CallInit

Init ==
  /\ EngineInit
  /\ tok = TokNone
  /\ sigchld_ign \in BOOLEAN
  /\ input_is_tty \in BOOLEAN
  /\ fds = InitFds
  /\ line = <<>>
  /\ parsed = NotParsed
  /\ sess = SessNone

N == Len(job.argvv)
Stage(i) == job.argvv[i + 1]

\* execute_job stores the status, derives the action from the scan and returns
Return(status) ==
  /\ cmd_status' = status
  /\ action' = ScanAction(job)
  /\ pc' = "returned"

(***************************************************************************)
(* execute_job: entry, lines 60-98 and 207-213.                            *)
(***************************************************************************)
ExecuteJobCall(j) ==
  /\ pc = "idle"
  /\ job' = j
  /\ fp' = FpInit
  /\ pl' = PlInit
  /\ child' = [s \in Stages |-> NoChild]
  /\ call' = [CallInit EXCEPT !.cwd0 = cwd, !.fds0 = fds]
  /\ action' = EXEC_CONTINUE
  /\ IF Len(j.argvv) = 0
       THEN cmd_status' = 0 /\ pc' = "returned"
       ELSE /\ cmd_status' = 1
            /\ pc' = IF IsSingleBuiltin(j) THEN "fp_save"
                     ELSE IF Len(j.argvv) = 1 THEN "simple_fork"
                     ELSE "pipe_create"
  /\ UNCHANGED <<tok, input_is_tty, sigchld_ign, cwd, fds, npipes>>

\* a call of execute_job by a caller other than the session loop
ExecuteJobEnter(j) == ExecuteJobCall(j) /\ UNCHANGED <<line, parsed, sess>>

(***************************************************************************)
(* execute_job: a single builtin, run in the engine's own process,         *)
(* lines 100-201.                                                          *)
(***************************************************************************)
\* lines 109-122: save the descriptors that will be redirected
FpSave ==
  /\ pc = "fp_save"
  /\ \E ok1 \in BOOLEAN, ok2 \in BOOLEAN :
       LET sIn  == IF job.infile # NULL
                     THEN SysDup(fds, STDIN_FILENO, ok1)
                     ELSE [rc |-> -1, fds |-> fds]
           err1 == job.infile # NULL /\ sIn.rc < 0
           sOut == IF ~err1 /\ job.outfile # NULL
                     THEN SysDup(sIn.fds, STDOUT_FILENO, ok2)
                     ELSE [rc |-> -1, fds |-> sIn.fds]
           err2 == ~err1 /\ job.outfile # NULL /\ sOut.rc < 0
       IN /\ fp' = [fp EXCEPT !.saved_stdin = sIn.rc,
                              !.saved_stdout = sOut.rc,
                              !.redir_error = IF err1 \/ err2 THEN -1 ELSE 0]
          /\ fds' = sOut.fds
  /\ pc' = "fp_redir"
  /\ UNCHANGED <<tok, line, parsed, sess, input_is_tty, sigchld_ign, cwd, job, cmd_status, action,
                 pl, child, npipes, call>>

\* lines 124-156: point stdin / stdout at the redirect targets
FpRedirectResult(t, j, ok1, ok2) ==
  LET i == IF j.infile = NULL THEN [rc |-> 0, fds |-> t]
           ELSE LET o == open_input_file(t, j.infile) IN
                IF o.rc < 0 THEN [rc |-> -1, fds |-> o.fds]
                ELSE RedirectTo(o, STDIN_FILENO, ok1)
  IN IF i.rc < 0 THEN i
     ELSE IF j.outfile = NULL THEN [rc |-> 0, fds |-> i.fds]
     ELSE LET o == open_output_file(i.fds, j.outfile) IN
          IF o.rc < 0 THEN [rc |-> -1, fds |-> o.fds]
          ELSE RedirectTo(o, STDOUT_FILENO, ok2)

FpRedirect ==
  /\ pc = "fp_redir"
  /\ IF fp.redir_error = 0
       THEN \E ok1 \in BOOLEAN, ok2 \in BOOLEAN :
              LET r == FpRedirectResult(fds, job, ok1, ok2) IN
              /\ fds' = r.fds
              /\ fp' = [fp EXCEPT !.redir_error = r.rc]
       ELSE UNCHANGED <<fds, fp>>
  /\ pc' = "fp_run"
  /\ UNCHANGED <<tok, line, parsed, sess, input_is_tty, sigchld_ign, cwd, job, cmd_status, action,
                 pl, child, npipes, call>>

\* mutant: the builtin runs although the redirection failed
FpRun_IgnoreRedirError ==
  /\ pc = "fp_run"
  /\ LET r == run_builtin_parent(Stage(0), cwd) IN
     /\ fp' = [fp EXCEPT !.status = IF r.ret < 0 THEN 1 ELSE r.status,
                         !.builtin_action = r.action,
                         !.out = r.out,
                         !.err = r.err]
     /\ cwd' = r.cwd
     /\ call' = [call EXCEPT !.ran = TRUE]
  /\ pc' = "fp_restore"
  /\ UNCHANGED <<tok, line, parsed, sess, input_is_tty, sigchld_ign, fds, job, cmd_status, action,
                 pl, child, npipes>>

\* lines 158-164: run the builtin unless the redirection failed
FpRun ==
  /\ pc = "fp_run"
  /\ IF fp.redir_error = 0
       THEN LET r == run_builtin_parent(Stage(0), cwd) IN
            /\ fp' = [fp EXCEPT !.status = IF r.ret < 0 THEN 1 ELSE r.status,
                                !.builtin_action = r.action,
                                !.out = r.out,
                                !.err = r.err]
            /\ cwd' = r.cwd
            /\ call' = [call EXCEPT !.ran = TRUE]
       ELSE /\ fp' = [fp EXCEPT !.status = 1]
            /\ UNCHANGED <<cwd, call>>
  /\ pc' = "fp_restore"
  /\ UNCHANGED <<tok, line, parsed, sess, input_is_tty, sigchld_ign, fds, job, cmd_status, action,
                 pl, child, npipes>>

\* lines 166-178: dup2 the saved descriptor back, then close it
RestoreFd(t, saved, target, ok) ==
  IF saved = -1 THEN t
  ELSE CloseFd(SysDup2(t, saved, target, ok).fds, saved)

\* mutant: only the action of the builtin body is returned
FpRestore_NoScan ==
  /\ pc = "fp_restore"
  /\ \E ok1 \in BOOLEAN, ok2 \in BOOLEAN :
       fds' = RestoreFd(RestoreFd(fds, fp.saved_stdin, STDIN_FILENO, ok1),
                        fp.saved_stdout, STDOUT_FILENO, ok2)
  /\ cmd_status' = fp.status
  /\ action' = fp.builtin_action
  /\ pc' = "returned"
  /\ UNCHANGED <<tok, line, parsed, sess, input_is_tty, sigchld_ign, cwd, job, fp, pl, child, npipes, call>>

\* lines 166-200: restore, store the status, choose the action, return
FpRestore ==
  /\ pc = "fp_restore"
  /\ \E ok1 \in BOOLEAN, ok2 \in BOOLEAN :
       fds' = RestoreFd(RestoreFd(fds, fp.saved_stdin, STDIN_FILENO, ok1),
                        fp.saved_stdout, STDOUT_FILENO, ok2)
  /\ cmd_status' = fp.status
  /\ action' = IF fp.builtin_action # EXEC_CONTINUE THEN fp.builtin_action
               ELSE ScanAction(job)
  /\ pc' = "returned"
  /\ UNCHANGED <<tok, line, parsed, sess, input_is_tty, sigchld_ign, cwd, job, fp, pl, child, npipes, call>>


(***************************************************************************)
(* Processes.                                                              *)
(***************************************************************************)
Alive(c) == c.st \in {"forked", "execed"}
Gone(c)  == c.st \in {"zombie", "reaped"}

\* fork(): the child starts with a copy of the parent's descriptors and cwd
Forked(t, dir) == [NoChild EXCEPT !.st = "forked", !.fds = t, !.cwd = dir]

\* _exit / death: the descriptors are closed; the child stays a zombie until
\* it is waited for, unless SIGCHLD is ignored
Terminate(c, w) ==
  [c EXCEPT !.st = IF sigchld_ign THEN "reaped" ELSE "zombie",
            !.fds = AllClosed, !.ws = w]

\* waitpid(pid, &wstatus, 0) once the child is gone: [rc, ws]
waitpid(c) ==
  IF c.st = "zombie" THEN [rc |-> 0, ws |-> c.ws]
  ELSE [rc |-> -1, ws |-> NoStatus]

\* the child after the waitpid for it returned rc
Waited(c, rc) == [c EXCEPT !.st = "reaped", !.waited = TRUE, !.wrc = rc]

\* some process still holds the write end of pipe u
WriterOpen(u) ==
  \/ \E f \in FdRange : fds[f] = PipeW(u)
  \/ \E s \in Stages : Alive(child[s]) /\ \E f \in FdRange : child[s].fds[f] = PipeW(u)

\* a read of the child's standard input can return end-of-file
CanReadEOF(c) ==
  LET in == c.fds[STDIN_FILENO] IN
  ~(in.k = "pipe" /\ in.n = <<"r">> /\ WriterOpen(in.id))

(***************************************************************************)
(* run_simple_command, lines 234-288.                                      *)
(***************************************************************************)
SimpleFork ==
  /\ pc = "simple_fork"
  /\ IF Stage(0) = <<>>
       THEN Return(0) /\ UNCHANGED <<child, call>>
       ELSE \E ok \in BOOLEAN :
              IF ok
                THEN /\ child' = [child EXCEPT ![0] = Forked(fds, cwd)]
                     /\ call' = [call EXCEPT !.forks = @ + 1]
                     /\ pc' = "simple_wait"
                     /\ UNCHANGED <<cmd_status, action>>
                ELSE Return(1) /\ UNCHANGED <<child, call>>
  /\ UNCHANGED <<tok, line, parsed, sess, input_is_tty, sigchld_ign, cwd, fds, job, fp, pl, npipes>>

WaitStatus(w) ==
  IF w.rc < 0 THEN 1
  ELSE IF WIFEXITED(w.ws) THEN WEXITSTATUS(w.ws) ELSE 1

SimpleWait ==
  /\ pc = "simple_wait"
  /\ Gone(child[0])
  /\ Return(WaitStatus(waitpid(child[0])))
  /\ child' = [child EXCEPT ![0] = Waited(@, waitpid(@).rc)]
  /\ UNCHANGED <<tok, line, parsed, sess, input_is_tty, sigchld_ign, cwd, fds, job, fp, pl, npipes, call>>

(***************************************************************************)
(* run_pipeline, lines 298-425: the controlling process.                   *)
(***************************************************************************)
\* mutant: only the read ends are closed
RECURSIVE ClosePipes_ReadEnds(_, _)
ClosePipes_ReadEnds(t, pipes) ==
  IF pipes = <<>> THEN t
  ELSE ClosePipes_ReadEnds(CloseFd(t, Head(pipes).r), Tail(pipes))

\* lines 325-328, 340-343, 377-380, 406-409: close both ends of every pipe
RECURSIVE ClosePipes(_, _)
ClosePipes(t, pipes) ==
  IF pipes = <<>> THEN t
  ELSE ClosePipes(CloseFd(CloseFd(t, Head(pipes).r), Head(pipes).w), Tail(pipes))

\* pipe(): two new descriptors, the read end first
SysPipe(t, u, ok) ==
  IF ok /\ Cardinality(FreeFds(t)) >= 2
    THEN LET r  == LowestFree(t)
             t1 == [t EXCEPT ![r] = PipeR(u)]
             w  == LowestFree(t1)
         IN [rc |-> 0, fds |-> [t1 EXCEPT ![w] = PipeW(u)],
             pipe |-> [r |-> r, w |-> w, id |-> u]]
    ELSE [rc |-> -1, fds |-> t, pipe |-> [r |-> -1, w |-> -1, id |-> u]]

\* lines 311-317: one turn of the loop that creates the pipes
PipeCreate ==
  /\ pc = "pipe_create"
  /\ \E ok \in BOOLEAN :
       LET p == SysPipe(fds, npipes, ok) IN
       IF p.rc < 0
         THEN /\ pl' = [pl EXCEPT !.fail = "pipe"]
              /\ Return(1)
              /\ UNCHANGED <<fds, npipes>>
         ELSE /\ fds' = p.fds
              /\ npipes' = npipes + 1
              /\ pl' = [pl EXCEPT !.pipes = Append(@, p.pipe)]
              /\ pc' = IF Len(pl.pipes) + 1 = N - 1 THEN "pipe_fork" ELSE "pipe_create"
              /\ UNCHANGED <<cmd_status, action>>
  /\ UNCHANGED <<tok, line, parsed, sess, input_is_tty, sigchld_ign, cwd, job, fp, child, call>>

\* mutant: the failure path returns without waiting for the forked stages
PipeFailure_NoWait(why) ==
  /\ fds' = ClosePipes(fds, pl.pipes)
  /\ pl' = [pl EXCEPT !.fail = why]
  /\ Return(1)
  /\ UNCHANGED <<child, call>>

\* lines 325-333 and 340-348: close every pipe, then wait for stages 0..i-1
PipeFailure(why) ==
  /\ fds' = ClosePipes(fds, pl.pipes)
  /\ IF pl.i = 0
       THEN /\ pl' = [pl EXCEPT !.fail = why]
            /\ Return(1)
       ELSE /\ pl' = [pl EXCEPT !.fail = why, !.k = 0]
            /\ pc' = "cleanup_wait"
            /\ UNCHANGED <<cmd_status, action>>
  /\ UNCHANGED <<child, call>>

\* lines 320-403: one turn of the loop that forks the stages
PipeFork ==
  /\ pc = "pipe_fork"
  /\ IF Stage(pl.i) = <<>>
       THEN PipeFailure("empty")
       ELSE \E ok \in BOOLEAN :
              IF ok
                THEN /\ child' = [child EXCEPT ![pl.i] = Forked(fds, cwd)]
                     /\ call' = [call EXCEPT !.forks = @ + 1]
                     /\ pl' = [pl EXCEPT !.i = @ + 1]
                     /\ pc' = IF pl.i + 1 = N THEN "pipe_close" ELSE "pipe_fork"
                     /\ UNCHANGED <<fds, cmd_status, action>>
                ELSE PipeFailure("fork")
  /\ UNCHANGED <<tok, line, parsed, sess, input_is_tty, sigchld_ign, cwd, job, fp, npipes>>

\* lines 329-333 and 344-348: wait for one already forked stage
CleanupWait ==
  /\ pc = "cleanup_wait"
  /\ Gone(child[pl.k])
  /\ child' = [child EXCEPT ![pl.k] = Waited(@, waitpid(@).rc)]
  /\ pl' = [pl EXCEPT !.k = @ + 1]
  /\ IF pl.k + 1 = pl.i
       THEN Return(1)
       ELSE UNCHANGED <<pc, cmd_status, action>>
  /\ UNCHANGED <<tok, line, parsed, sess, input_is_tty, sigchld_ign, cwd, fds, job, fp, npipes, call>>

\* mutant: the controlling process starts to wait with the pipes still open
PipeClose_Skip ==
  /\ pc = "pipe_close"
  /\ pl' = [pl EXCEPT !.k = 0, !.last_status = 1]
  /\ pc' = "pipe_wait"
  /\ UNCHANGED <<tok, line, parsed, sess, input_is_tty, sigchld_ign, cwd, fds, job, cmd_status, action,
                 fp, child, npipes, call>>

\* lines 405-409: the controlling process closes every pipe descriptor
PipeClose ==
  /\ pc = "pipe_close"
  /\ fds' = ClosePipes(fds, pl.pipes)
  /\ pl' = [pl EXCEPT !.k = 0, !.last_status = 1]
  /\ pc' = "pipe_wait"
  /\ UNCHANGED <<tok, line, parsed, sess, input_is_tty, sigchld_ign, cwd, job, cmd_status, action, fp,
                 child, npipes, call>>

\* mutant: the exit code of every stage is taken, not only the last one's
LastStatus_AnyStage(prev, k, n, w) ==
  IF w.rc < 0 THEN prev
  ELSE IF WIFEXITED(w.ws) THEN WEXITSTATUS(w.ws)
  ELSE prev

\* lines 413-422: last_status after the wait for stage k
LastStatus(prev, k, n, w) ==
  IF w.rc < 0 THEN prev
  ELSE IF k = n - 1 /\ WIFEXITED(w.ws) THEN WEXITSTATUS(w.ws)
  ELSE prev

\* lines 411-424: one turn of the loop that waits for the stages
PipeWait ==
  /\ pc = "pipe_wait"
  /\ Gone(child[pl.k])
  /\ LET w  == waitpid(child[pl.k])
         ls == LastStatus(pl.last_status, pl.k, N, w)
     IN /\ child' = [child EXCEPT ![pl.k] = Waited(@, w.rc)]
        /\ pl' = [pl EXCEPT !.k = @ + 1, !.last_status = ls]
        /\ IF pl.k + 1 = N
             THEN Return(ls)
             ELSE UNCHANGED <<pc, cmd_status, action>>
  /\ UNCHANGED <<tok, line, parsed, sess, input_is_tty, sigchld_ign, cwd, fds, job, fp, npipes, call>>

(***************************************************************************)
(* The forked children.                                                    *)
(***************************************************************************)
\* mutant: the child keeps the pipe descriptors after wiring
PipelineWiring_NoClose(t, i, n, pipes, tty, e) ==
  LET b == setup_stdin_for_batch(t, tty, e) IN
  IF b.rc < 0 THEN [rc |-> -1, fds |-> b.fds]
  ELSE
    LET a == IF i > 0
               THEN SysDup2(b.fds, pipes[i].r, STDIN_FILENO, e.inDup2)
               ELSE [rc |-> 0, fds |-> b.fds]
    IN IF a.rc < 0 THEN [rc |-> -1, fds |-> a.fds]
       ELSE IF i < n - 1
              THEN SysDup2(a.fds, pipes[i + 1].w, STDOUT_FILENO, e.outDup2)
              ELSE [rc |-> 0, fds |-> a.fds]

\* lines 356-380: descriptor wiring of stage i of n
PipelineWiring(t, i, n, pipes, tty, e) ==
  LET b == setup_stdin_for_batch(t, tty, e) IN
  IF b.rc < 0 THEN [rc |-> -1, fds |-> b.fds]
  ELSE
    LET a == IF i > 0
               THEN SysDup2(b.fds, pipes[i].r, STDIN_FILENO, e.inDup2)
               ELSE [rc |-> 0, fds |-> b.fds]
    IN IF a.rc < 0 THEN [rc |-> -1, fds |-> a.fds]
       ELSE
         LET o == IF i < n - 1
                    THEN SysDup2(a.fds, pipes[i + 1].w, STDOUT_FILENO, e.outDup2)
                    ELSE [rc |-> 0, fds |-> a.fds]
         IN IF o.rc < 0 THEN [rc |-> -1, fds |-> o.fds]
            ELSE [rc |-> 0, fds |-> ClosePipes(o.fds, pipes)]

\* mutant: a command that is not found exits like any failed set-up
ChildCommandResult_NotFoundOne(argv, dir) ==
  IF is_builtin(argv[1])
    THEN [exec |-> FALSE, code |-> 0, path |-> NULL,
          err |-> run_builtin_child(argv, dir).err]
  ELSE IF resolve_program_path(argv[1]) \in Executables
    THEN [exec |-> TRUE, code |-> 0, path |-> resolve_program_path(argv[1]),
          err |-> <<>>]
  ELSE [exec |-> FALSE, code |-> 1, path |-> NULL, err |-> <<>>]

\* lines 256-272 and 382-398: what the child does with its command:
\* the exit code it _exits with, or "exec" and the path it executes
ChildCommandResult(argv, dir) ==
  IF is_builtin(argv[1])
    THEN [exec |-> FALSE, code |-> 0, path |-> NULL,
          err |-> run_builtin_child(argv, dir).err]
  ELSE IF resolve_program_path(argv[1]) = NULL
    THEN [exec |-> FALSE, code |-> NOT_FOUND_STATUS, path |-> NULL, err |-> <<>>]
  ELSE IF resolve_program_path(argv[1]) \in Executables
    THEN [exec |-> TRUE, code |-> 0, path |-> resolve_program_path(argv[1]),
          err |-> <<>>]
  ELSE [exec |-> FALSE, code |-> NOT_FOUND_STATUS, path |-> NULL, err |-> <<>>]

\* mutant: a child that ran a builtin leaves the fork branch and goes on
\* in the code of the engine
ChildRun_BuiltinReturns(i) ==
  /\ child[i].st = "forked"
  /\ \E e \in EnvChoices :
       LET r == IF N = 1
                  THEN setup_redirection(child[i].fds, job.infile, job.outfile,
                                         input_is_tty, e)
                  ELSE PipelineWiring(child[i].fds, i, N, pl.pipes, input_is_tty, e)
           c == ChildCommandResult(Stage(i), child[i].cwd)
           s == [child[i] EXCEPT !.started = TRUE, !.cmdFds = r.fds, !.fds = r.fds]
       IN child' = [child EXCEPT ![i] =
                      IF r.rc < 0 THEN Terminate(@, Exited(1))
                      ELSE IF c.exec THEN [s EXCEPT !.st = "execed", !.path = c.path]
                      ELSE IF is_builtin(Stage(i)[1]) THEN [s EXCEPT !.st = "returned"]
                      ELSE Terminate(s, Exited(c.code))]
  /\ UNCHANGED <<tok, line, parsed, sess, input_is_tty, sigchld_ign, cwd, fds, pc, job, cmd_status,
                 action, fp, pl, npipes, call>>

\* lines 250-273 and 351-399: the child branch of fork: the child sets up
\* its descriptors (_exit(1) when that fails) and runs its command
ChildRun(i) ==
  /\ child[i].st = "forked"
  /\ \E e \in EnvChoices :
       LET r == IF N = 1
                  THEN setup_redirection(child[i].fds, job.infile, job.outfile,
                                         input_is_tty, e)
                  ELSE PipelineWiring(child[i].fds, i, N, pl.pipes, input_is_tty, e)
           c == ChildCommandResult(Stage(i), child[i].cwd)
           s == [child[i] EXCEPT !.started = TRUE, !.cmdFds = r.fds, !.fds = r.fds]
       IN child' = [child EXCEPT ![i] =
                      IF r.rc < 0 THEN Terminate(@, Exited(1))
                      ELSE IF c.exec THEN [s EXCEPT !.st = "execed", !.path = c.path]
                      ELSE Terminate(s, Exited(c.code))]
  /\ UNCHANGED <<tok, line, parsed, sess, input_is_tty, sigchld_ign, cwd, fds, pc, job, cmd_status,
                 action, fp, pl, npipes, call>>

\* the program a child executes ends: cat exits once it read end-of-file;
\* any program may be killed by a signal at any time
ProgramEnds(i, w) ==
  /\ child[i].st = "execed"
  /\ w \in Outcomes(child[i].path)
  /\ (child[i].path = CatPath /\ WIFEXITED(w)) => CanReadEOF(child[i])
  /\ child' = [child EXCEPT ![i] = Terminate(@, w)]
  /\ UNCHANGED <<tok, line, parsed, sess, input_is_tty, sigchld_ign, cwd, fds, pc, job, cmd_status,
                 action, fp, pl, npipes, call>>

ProgramExit(i) == \E w \in Outcomes(child[i].path) : ProgramEnds(i, w)

\* the program of stage i ends by itself: it exits, cat after end-of-file
ProgramExitsNormally(i) ==
  \E w \in {x \in Outcomes(child[i].path) : WIFEXITED(x)} : ProgramEnds(i, w)

(***************************************************************************)
(* read_and_execute_loop, mysh_core.c lines 322-461.                       *)
(***************************************************************************)
\* the job_t of the parser as execute_job reads it
EngineJob(pj) ==
  MkJob([s \in 1 .. pj.num_procs |-> ArgvOf(pj.argvv[s])], pj.infile, pj.outfile)

\* mutant: a job with the condition Or is never skipped
Decide_OrAlways(pr, seen, last) ==
  IF pr.ret > 0 THEN
    IF ~seen /\ pr.job.cond # COND_NONE THEN "reject"
    ELSE IF pr.job.cond = COND_AND /\ last # 0 THEN "skip"
    ELSE "exec"
  ELSE IF pr.ret = -1 THEN "syntax"
  ELSE "empty"

\* mutant: a syntax error is passed over like an empty line
Decide_SyntaxIgnored(pr, seen, last) ==
  IF pr.ret > 0 THEN
    IF ~seen /\ pr.job.cond # COND_NONE THEN "reject"
    ELSE IF pr.job.cond = COND_AND /\ last # 0 THEN "skip"
    ELSE IF pr.job.cond = COND_OR /\ last = 0 THEN "skip"
    ELSE "exec"
  ELSE "empty"

\* mutant: a line without a token counts as a syntax error
Decide_EmptyIsError(pr, seen, last) ==
  IF pr.ret > 0 THEN
    IF ~seen /\ pr.job.cond # COND_NONE THEN "reject"
    ELSE IF pr.job.cond = COND_AND /\ last # 0 THEN "skip"
    ELSE IF pr.job.cond = COND_OR /\ last = 0 THEN "skip"
    ELSE "exec"
  ELSE "syntax"

\* lines 358-399 and 422-457: what the loop does with a parsed line
Decide(pr, seen, last) ==
  IF pr.ret > 0 THEN
    IF ~seen /\ pr.job.cond # COND_NONE THEN "reject"
    ELSE IF pr.job.cond = COND_AND /\ last # 0 THEN "skip"
    ELSE IF pr.job.cond = COND_OR /\ last = 0 THEN "skip"
    ELSE "exec"
  ELSE IF pr.ret = -1 THEN "syntax"
  ELSE "empty"

\* mutant: a line that was rejected or failed to parse counts as seen
HandleLine_ErrorSeen(l, base, execPc, nextPc) ==
  LET pr == parse_line(l, EmptyJob)
      d  == Decide(pr, sess.have_seen_command, sess.last_exit_status)
      b  == [base EXCEPT !.nlines = @ + 1, !.decided = d,
                         !.prev = sess.last_exit_status]
  IN
  /\ line' = l
  /\ parsed' = pr
  /\ IF d = "exec"
       THEN /\ ExecuteJobCall(EngineJob(pr.job))
            /\ sess' = [b EXCEPT !.pc = execPc, !.nexec = @ + 1]
       ELSE /\ sess' = [b EXCEPT
                 !.pc = nextPc,
                 !.ret = IF nextPc = "done" THEN sess.shell_exit_status ELSE @,
                 !.last_exit_status = IF d \in {"reject", "syntax"} THEN 1 ELSE @,
                 !.have_seen_command = IF d \in {"skip", "reject", "syntax"}
                                         THEN TRUE ELSE @]
            /\ UNCHANGED <<tok, input_is_tty, sigchld_ign, cwd, fds, pc, job,
                           cmd_status, action, fp, pl, child, npipes, call>>

\* lines 355-399 and 419-457: parse the line l and act on it; base is the
\* loop's state with its position advanced, execPc / nextPc the positions
\* of the loop while execute_job runs / when the line needs no execution
HandleLine(l, base, execPc, nextPc) ==
  LET pr == parse_line(l, EmptyJob)
      d  == Decide(pr, sess.have_seen_command, sess.last_exit_status)
      b  == [base EXCEPT !.nlines = @ + 1, !.decided = d,
                         !.prev = sess.last_exit_status]
  IN
  /\ line' = l
  /\ parsed' = pr
  /\ IF d = "exec"
       THEN /\ ExecuteJobCall(EngineJob(pr.job))
            /\ sess' = [b EXCEPT !.pc = execPc, !.nexec = @ + 1]
       ELSE /\ sess' = [b EXCEPT
                 !.pc = nextPc,
                 !.ret = IF nextPc = "done" THEN sess.shell_exit_status ELSE @,
                 !.last_exit_status = IF d \in {"reject", "syntax"} THEN 1 ELSE @,
                 !.have_seen_command = IF d = "skip" THEN TRUE ELSE @]
            /\ UNCHANGED <<tok, input_is_tty, sigchld_ign, cwd, fds, pc, job,
                           cmd_status, action, fp, pl, child, npipes, call>>

\* lines 334-346: one read() into the free part of the buffer.  It returns
\* 0 at the end of the input and when the buffer has no free byte left
SessRead ==
  /\ sess.pc = "read"
  /\ LET space == BufSize - Len(sess.buffer) - 1 IN
     \/ /\ (sess.input = <<>> \/ space = 0)
        /\ sess' = [sess EXCEPT !.pc = "final",
                                !.ended = IF sess.input = <<>> THEN "eof" ELSE "full"]
     \/ /\ sess.input # <<>> /\ space > 0
        /\ \E n \in 1 .. space :
             /\ n <= Len(sess.input)
             /\ sess' = [sess EXCEPT !.buffer = @ \o SubSeq(sess.input, 1, n),
                                     !.input = SubSeq(@, n + 1, Len(@)),
                                     !.i = sess.line_start,
                                     !.pc = "scan"]
     \/ /\ sess.input # <<>>                   \* read fails, not with EINTR
        /\ sess' = [sess EXCEPT !.pc = "final", !.ended = "read_error"]
  /\ UNCHANGED <<tok, input_is_tty, sigchld_ign, cwd, fds, pc, job, cmd_status,
                 action, fp, pl, child, npipes, call, line, parsed>>

\* the index of the first newline of buf at or after i, Len(buf) if none
RECURSIVE NextNewline(_, _)
NextNewline(buf, i) ==
  IF i >= Len(buf) THEN Len(buf)
  ELSE IF buf[i + 1] = "\n" THEN i
  ELSE NextNewline(buf, i + 1)

\* lines 349-412: scan on to the next newline and process the line it
\* ends, or shift the incomplete line to the front and read more
SessScan ==
  /\ sess.pc = "scan"
  /\ LET e == NextNewline(sess.buffer, sess.i) IN
     IF e < Len(sess.buffer)
       THEN HandleLine(SubSeq(sess.buffer, sess.line_start + 1, e),
                       [sess EXCEPT !.line_start = e + 1, !.i = e + 1],
                       "exec", "scan")
       ELSE /\ sess' = [sess EXCEPT
                 !.buffer = SubSeq(@, sess.line_start + 1, Len(@)),
                 !.line_start = 0, !.i = 0, !.pc = "read"]
            /\ UNCHANGED <<tok, input_is_tty, sigchld_ign, cwd, fds, pc, job,
                           cmd_status, action, fp, pl, child, npipes, call,
                           line, parsed>>

\* mutant: EXEC_EXIT does not end the loop
AfterJob_ExitGoesOn(contPc) ==
  /\ pc = "returned"
  /\ pc' = "idle"
  /\ sess' =
       IF action = EXEC_DIE
         THEN [sess EXCEPT !.last_exit_status = cmd_status,
                           !.shell_exit_status = EXIT_FAILURE,
                           !.ret = EXIT_FAILURE, !.pc = "done", !.ended = "die"]
       ELSE IF contPc = "done"
         THEN [sess EXCEPT !.last_exit_status = cmd_status,
                           !.have_seen_command = TRUE,
                           !.ret = sess.shell_exit_status, !.pc = "done"]
       ELSE [sess EXCEPT !.last_exit_status = cmd_status,
                         !.have_seen_command = TRUE, !.pc = contPc]
  /\ UNCHANGED <<tok, input_is_tty, sigchld_ign, cwd, fds, job, cmd_status, action,
                 fp, pl, child, npipes, call, line, parsed>>

\* mutant: the loop returns the status of the last command
AfterJob_ReturnsStatus(contPc) ==
  /\ pc = "returned"
  /\ pc' = "idle"
  /\ sess' =
       IF action = EXEC_EXIT
         THEN [sess EXCEPT !.last_exit_status = cmd_status,
                           !.shell_exit_status = EXIT_SUCCESS,
                           !.ret = EXIT_SUCCESS, !.pc = "done", !.ended = "exit"]
       ELSE IF action = EXEC_DIE
         THEN [sess EXCEPT !.last_exit_status = cmd_status,
                           !.shell_exit_status = EXIT_FAILURE,
                           !.ret = EXIT_FAILURE, !.pc = "done", !.ended = "die"]
       ELSE IF contPc = "done"
         THEN [sess EXCEPT !.last_exit_status = cmd_status,
                           !.have_seen_command = TRUE,
                           !.ret = IF cmd_status = 0 THEN EXIT_SUCCESS ELSE EXIT_FAILURE,
                           !.pc = "done"]
       ELSE [sess EXCEPT !.last_exit_status = cmd_status,
                         !.have_seen_command = TRUE, !.pc = contPc]
  /\ UNCHANGED <<tok, input_is_tty, sigchld_ign, cwd, fds, job, cmd_status, action,
                 fp, pl, child, npipes, call, line, parsed>>

\* lines 376-394 and 437-452: execute_job returned to the loop
AfterJob(contPc) ==
  /\ pc = "returned"
  /\ pc' = "idle"
  /\ sess' =
       IF action = EXEC_EXIT
         THEN [sess EXCEPT !.last_exit_status = cmd_status,
                           !.shell_exit_status = EXIT_SUCCESS,
                           !.ret = EXIT_SUCCESS, !.pc = "done", !.ended = "exit"]
       ELSE IF action = EXEC_DIE
         THEN [sess EXCEPT !.last_exit_status = cmd_status,
                           !.shell_exit_status = EXIT_FAILURE,
                           !.ret = EXIT_FAILURE, !.pc = "done", !.ended = "die"]
       ELSE IF contPc = "done"
         THEN [sess EXCEPT !.last_exit_status = cmd_status,
                           !.have_seen_command = TRUE,
                           !.ret = sess.shell_exit_status, !.pc = "done"]
       ELSE [sess EXCEPT !.last_exit_status = cmd_status,
                         !.have_seen_command = TRUE, !.pc = contPc]
  /\ UNCHANGED <<tok, input_is_tty, sigchld_ign, cwd, fds, job, cmd_status, action,
                 fp, pl, child, npipes, call, line, parsed>>

\* lines 376-394
SessJobReturned == sess.pc = "exec" /\ AfterJob("scan")

\* lines 415-460: after the loop, the bytes left in the buffer are the
\* final line
SessFinal ==
  /\ sess.pc = "final"
  /\ IF Len(sess.buffer) > 0
       THEN HandleLine(SubSeq(sess.buffer, sess.line_start + 1, Len(sess.buffer)),
                       sess, "final_exec", "done")
       ELSE /\ sess' = [sess EXCEPT !.pc = "done", !.ret = sess.shell_exit_status]
            /\ UNCHANGED <<tok, input_is_tty, sigchld_ign, cwd, fds, pc, job,
                           cmd_status, action, fp, pl, child, npipes, call,
                           line, parsed>>

\* lines 437-452
SessFinalReturned == sess.pc = "final_exec" /\ AfterJob("done")

(***************************************************************************)
(* Specifications.                                                         *)
(***************************************************************************)
Next ==
  \/ \E j \in Jobs : ExecuteJobEnter(j)
  \/ FpSave
  \/ FpRedirect
  \/ FpRun
  \/ FpRestore
  \/ SimpleFork
  \/ SimpleWait
  \/ PipeCreate
  \/ PipeFork
  \/ CleanupWait
  \/ PipeClose
  \/ PipeWait
  \/ \E i \in Stages : ChildRun(i)
  \/ \E i \in Stages : ProgramExit(i)

Spec == Init /\ [][Next]_vars

\* Scheduling: the engine process keeps running (its system calls return,
\* a wait returns once the child is gone), every forked child is scheduled,
\* and a program that can exit by itself does so.  No signal is promised.
Fairness ==
  /\ WF_vars(PipeCreate) /\ WF_vars(PipeFork) /\ WF_vars(CleanupWait)
  /\ WF_vars(PipeClose) /\ WF_vars(PipeWait)
  /\ \A i \in Stages : WF_vars(ChildRun(i)) /\ WF_vars(ProgramExitsNormally(i))

\* execute_job on a pipeline of programs
PipelineNext ==
  \/ \E j \in ProgramPipeJobs : ExecuteJobEnter(j)
  \/ PipeCreate
  \/ PipeFork
  \/ CleanupWait
  \/ PipeClose
  \/ PipeWait
  \/ \E i \in Stages : ChildRun(i)
  \/ \E i \in Stages : ProgramExit(i)

PipelineSpec == Init /\ [][PipelineNext]_vars /\ Fairness

\* parse_line applied to one line
ParseInit ==
  /\ EngineInit
  /\ tok = TokNone
  /\ sigchld_ign = FALSE
  /\ input_is_tty = FALSE
  /\ fds = InitFds
  /\ line \in ParseLines
  /\ parsed = NotParsed
  /\ sess = [SessNone EXCEPT !.pc = "parse"]

ParseLine ==
  /\ sess.pc = "parse"
  /\ parsed' = parse_line(line, EmptyJob)
  /\ sess' = [sess EXCEPT !.pc = "parsed"]
  /\ UNCHANGED <<tok, input_is_tty, sigchld_ign, cwd, fds, pc, job, cmd_status,
                 action, fp, pl, child, npipes, call, line>>

ParseNext == ParseLine

ParseSpec == ParseInit /\ [][ParseNext]_vars

\* parse_line called once on a line of arbitrary characters
CharInit ==
  /\ EngineInit
  /\ tok = TokNone
  /\ sigchld_ign = FALSE
  /\ input_is_tty = FALSE
  /\ fds = InitFds
  /\ line \in CharLines
  /\ parsed = NotParsed
  /\ sess = [SessNone EXCEPT !.pc = "parse"]

CharSpec == CharInit /\ [][ParseNext]_vars

(***************************************************************************)
(* parse_line and simple_tokenize, mysh_core.c lines 71-311, one loop turn *)
(* at a time.                                                              *)
(***************************************************************************)
\* the strings an argument array holds
ArgStrings(arr) == Cardinality({k \in 1 .. Len(arr) : arr[k] # NULL})

\* the strings the argument arrays of arrs hold
RECURSIVE StringsIn(_)
StringsIn(arrs) ==
  IF arrs = <<>> THEN 0 ELSE ArgStrings(Head(arrs)) + StringsIn(Tail(arrs))

\* a pointer that free() gets: 1 block unless it is NULL
Block(ptr) == IF ptr = NULL THEN 0 ELSE 1

\* lines 287-310: the blocks parse_error frees: the argument arrays of
\* temp_argvs with their strings, the filenames and token_count tokens
ErrorFrees(st, token_count) ==
  Len(st.argvs) + StringsIn(st.argvs) + Block(st.infile) + Block(st.outfile)
    + token_count

\* lines 44-63: the blocks free_job frees: the argument arrays with their
\* strings, the array of the stages and the filenames
JobBlocks(j) ==
  (IF j.argvv = <<>> THEN 0 ELSE Len(j.argvv) + StringsIn(j.argvv) + 1)
    + Block(j.infile) + Block(j.outfile)

\* line 79 and 80: the loop goes on
TokLoopGoesOn ==
  /\ tok.p <= Len(line)
  /\ Len(tok.tokens) < MAX_TOKENS
  /\ line[tok.p] # "#"

\* lines 99-103: the byte after a word holds '\0' while the word is
\* duplicated; e is its position, past the line when the word ends the line
NulAt(e) == IF e <= Len(line) THEN e ELSE 0

\* lines 79-107: one turn of the loop; safe_strdup may fail, then the
\* entry is NULL and the function returns -1 at line 87 or 102, before the
\* byte after the word is written back at line 103
TokStep ==
  /\ tok.pc = "loop"
  /\ TokLoopGoesOn
  /\ LET s == TokenizeStep(line, tok.p, tok.tokens)
         t == Len(tok.tokens)
     IN IF Len(s.tokens) = t
          THEN tok' = [tok EXCEPT !.p = s.p]
          ELSE \E ok \in BOOLEAN :
                 tok' = IF ok
                          THEN [tok EXCEPT !.p = s.p, !.tokens = s.tokens, !.top = t,
                                           !.alloc = @ + 1, !.mallocs = @ + 1]
                          ELSE [tok EXCEPT !.tokens = Append(@, NULL), !.top = t,
                                           !.pc = "done", !.ret = -1,
                                           !.mallocs = @ + 1, !.nomem = TRUE,
                                           !.nul = IF IsOperator(line[tok.p]) THEN 0
                                                   ELSE NulAt(WordEnd(line, tok.p))]
  /\ UNCHANGED <<input_is_tty, sigchld_ign, cwd, fds, pc, job, cmd_status,
                 action, fp, pl, child, npipes, call, line, parsed, sess>>

\* lines 108-109: tokens[t] = NULL; return t.  The array has MAX_TOKENS
\* entries: with t = MAX_TOKENS the write is outside of it and the
\* behaviour is undefined -- the function returns as if nothing happened or
\* the process is stopped
TokEnd ==
  /\ tok.pc = "loop"
  /\ ~TokLoopGoesOn
  /\ LET t == Len(tok.tokens) IN
     \E o \in IF t < MAX_TOKENS THEN {"done"} ELSE {"done", "crashed"} :
       tok' = [tok EXCEPT !.top = t, !.ret = t, !.pc = o]
  /\ UNCHANGED <<input_is_tty, sigchld_ign, cwd, fds, pc, job, cmd_status,
                 action, fp, pl, child, npipes, call, line, parsed, sess>>

\* lines 123-168: parse_line after simple_tokenize returned: it returns
\* at once when there is no token, else it prepares the first stage
ParseBegin ==
  /\ tok.pc = "done"
  /\ LET c == IF tok.tokens[1] = Str_and THEN COND_AND
              ELSE IF tok.tokens[1] = Str_or THEN COND_OR
              ELSE COND_NONE
         first == IF c = COND_NONE THEN 0 ELSE 1
     IN IF tok.ret <= 0
          THEN /\ parsed' = [ret |-> IF tok.ret = 0 THEN 0 ELSE -1, job |-> parsed.job]
               /\ tok' = [tok EXCEPT !.pc = "parsed"]
        ELSE IF first >= tok.ret
          THEN /\ parsed' = IF c # COND_NONE THEN ParseError
                            ELSE [ret |-> 1, job |-> [EmptyJob EXCEPT !.cond = c]]
               /\ tok' = [tok EXCEPT !.pc = "parsed", !.alloc = @ - tok.ret]
        ELSE \E ok \in BOOLEAN :                \* malloc of temp_argvs[0]
               IF ok
                 THEN /\ tok' = [tok EXCEPT !.pc = "parse", !.ct = first,
                                            !.st = ParseStart(c),
                                            !.alloc = @ + 1, !.mallocs = @ + 1]
                      /\ UNCHANGED parsed
                 ELSE /\ parsed' = ParseError
                      /\ tok' = [tok EXCEPT !.pc = "parsed", !.alloc = @ - tok.ret,
                                            !.mallocs = @ + 1, !.nomem = TRUE]
  /\ UNCHANGED <<input_is_tty, sigchld_ign, cwd, fds, pc, job, cmd_status,
                 action, fp, pl, child, npipes, call, line, sess>>

\* lines 171-257: one turn of the token loop.  A turn without syntax error
\* allocates once (the array of the next stage, a filename or an argument);
\* when that fails the locals are still those before the turn
ParseStep ==
  /\ tok.pc = "parse"
  /\ tok.ct < tok.ret
  /\ LET r == ParseToken(tok.tokens, tok.ct, tok.st)
         failed == [tok EXCEPT !.pc = "parsed",
                               !.alloc = @ - ErrorFrees(tok.st, tok.ret)]
     IN
     IF r.err
       THEN /\ parsed' = ParseError
            /\ tok' = failed
       ELSE \E ok \in BOOLEAN :
              IF ok
                THEN /\ tok' = [tok EXCEPT !.ct = r.ct, !.st = r.st,
                                           !.alloc = @ + 1, !.mallocs = @ + 1]
                     /\ UNCHANGED parsed
                ELSE /\ parsed' = ParseError
                     /\ tok' = [failed EXCEPT !.mallocs = @ + 1, !.nomem = TRUE]
  /\ UNCHANGED <<input_is_tty, sigchld_ign, cwd, fds, pc, job, cmd_status,
                 action, fp, pl, child, npipes, call, line, sess>>

\* lines 259-285: after the last token: the array of the stages is
\* allocated, takes the argument arrays, and the tokens are freed
ParseEnd ==
  /\ tok.pc = "parse"
  /\ tok.ct >= tok.ret
  /\ LET failed == [tok EXCEPT !.pc = "parsed",
                               !.alloc = @ - ErrorFrees(tok.st, tok.ret)]
     IN
     IF ParseFinish(tok.st).ret = -1
       THEN /\ parsed' = ParseError
            /\ tok' = failed
       ELSE \E ok \in BOOLEAN :
              IF ok
                THEN /\ parsed' = ParseFinish(tok.st)
                     /\ tok' = [tok EXCEPT !.pc = "parsed", !.mallocs = @ + 1,
                                           !.alloc = @ + 1 - tok.ret]
                ELSE /\ parsed' = ParseError
                     /\ tok' = [failed EXCEPT !.mallocs = @ + 1, !.nomem = TRUE]
  /\ UNCHANGED <<input_is_tty, sigchld_ign, cwd, fds, pc, job, cmd_status,
                 action, fp, pl, child, npipes, call, line, sess>>

\* lines 44-63: free_job on the job parse_line filled in; it may be called
\* again on the job it emptied
FreeJob ==
  /\ tok.pc \in {"parsed", "freed"}
  /\ tok.frees < 2
  /\ parsed' = [parsed EXCEPT !.job = EmptyJob]
  /\ tok' = [tok EXCEPT !.pc = "freed", !.frees = @ + 1,
                        !.alloc = @ - JobBlocks(parsed.job),
                        !.first = IF tok.round = 1 /\ tok.pc = "parsed"
                                    THEN parsed ELSE @]
  /\ UNCHANGED <<input_is_tty, sigchld_ign, cwd, fds, pc, job, cmd_status,
                 action, fp, pl, child, npipes, call, line, sess>>

\* parse_line is called again on the buffer of a line that it parsed with
\* success, with the job free_job emptied
Reparse ==
  /\ tok.pc = "freed"
  /\ tok.round = 1
  /\ tok.first.ret = 1
  /\ tok' = [TokStart(line) EXCEPT !.round = 2, !.first = tok.first,
                                   !.alloc = tok.alloc, !.nul = tok.nul]
  /\ parsed' = [parsed EXCEPT !.ret = 0]
  /\ UNCHANGED <<input_is_tty, sigchld_ign, cwd, fds, pc, job, cmd_status,
                 action, fp, pl, child, npipes, call, line, sess>>

ParseLoopInit ==
  /\ EngineInit
  /\ sigchld_ign = FALSE
  /\ input_is_tty = FALSE
  /\ fds = InitFds
  /\ line \in TokenLoopLines \cup LimitLines
  /\ tok = TokStart(line)
  /\ parsed = NotParsed
  /\ sess = SessNone

ParseLoopNext ==
  TokStep \/ TokEnd \/ ParseBegin \/ ParseStep \/ ParseEnd \/ FreeJob \/ Reparse

ParseLoopSpec == ParseLoopInit /\ [][ParseLoopNext]_vars

\* the file mysh reads its commands from, opened by main
ScriptFile == FileR(<<"s">>)

\* main, lines 472-501: the commands come from a script file (descriptor 3,
\* never a terminal) or from the standard input, a terminal; the shell was
\* started with the default disposition of SIGCHLD
SessionInit ==
  /\ EngineInit
  /\ tok = TokNone
  /\ sigchld_ign = FALSE
  /\ \/ input_is_tty = FALSE /\ fds = [InitFds EXCEPT ![3] = ScriptFile]
     \/ input_is_tty = TRUE /\ fds = InitFds
  /\ line = <<>>
  /\ parsed = NotParsed
  /\ sess \in { SessInit(in) : in \in Scripts }

SessionNext ==
  \/ SessRead
  \/ SessScan
  \/ SessJobReturned
  \/ SessFinal
  \/ SessFinalReturned
  \/ FpSave
  \/ FpRedirect
  \/ FpRun
  \/ FpRestore
  \/ SimpleFork
  \/ SimpleWait
  \/ PipeCreate
  \/ PipeFork
  \/ CleanupWait
  \/ PipeClose
  \/ PipeWait
  \/ \E i \in Stages : ChildRun(i)
  \/ \E i \in Stages : ProgramExit(i)

SessionSpec == SessionInit /\ [][SessionNext]_vars

\* a line goes through parse_line one loop turn at a time, or a session
\* runs on a script
LineSpec ==
  (ParseLoopInit \/ SessionInit) /\ [][ParseLoopNext \/ SessionNext]_vars


(***************************************************************************)
(* Properties.                                                             *)
(***************************************************************************)
Returned == pc = "returned"

BuiltinNames == {Str_cd, Str_pwd, Str_which, Str_exit, Str_die}

\* the engine process holds an end of pipe p
HoldsPipe(t, p) == \E f \in FdRange : t[f] \in {PipeR(p.id), PipeW(p.id)}

\* the table t holds no end of any pipe of the current call
HoldsNoPipe(t) == \A q \in 1 .. Len(pl.pipes) : ~HoldsPipe(t, pl.pipes[q])

AllForked == N >= 2 /\ pl.fail = "none"

C2_AllChildrenReaped ==
  Returned =>
    /\ \A s \in Stages : child[s].st \in {"none", "reaped"}
    /\ \A s \in Stages : child[s].st = "reaped" => child[s].waited
    /\ Cardinality({s \in Stages : child[s].st = "reaped"}) = call.forks

\* the fork of stage 2 failed and the call returned after it waited for
\* the two stages it had forked
C2_Witness ==
  /\ Returned /\ pl.fail = "fork" /\ pl.i = 2 /\ call.forks = 2
  /\ child[0].waited /\ child[1].waited

\* C3: in run_pipeline the controlling process holds no end of any of the
\* N-1 pipes when it is at a wait or has waited for a child, on the normal
\* path and on the fork-failure and empty-stage paths.
C3_PipesClosedBeforeWait ==
  (N >= 2 /\ (pc \in {"pipe_wait", "cleanup_wait"}
              \/ \E s \in Stages : child[s].waited))
     => (pl.fail # "pipe" /\ Len(pl.pipes) = N - 1 /\ HoldsNoPipe(fds))

\* the controlling process is about to wait on the empty-stage path of a
\* three-stage pipeline, with both pipes created and a child still running
C3_Witness ==
  /\ pc = "cleanup_wait" /\ pl.fail = "empty" /\ Len(pl.pipes) = 2
  /\ pl.k = 0 /\ Alive(child[0])

\* C4: execute_job returns an action other than EXEC_CONTINUE iff the
\* command name of some stage is exactly exit or die, and it hands that
\* action out only when the job has finished running.
C4_ActionIffExitOrDie ==
  /\ Returned =>
       /\ (action # EXEC_CONTINUE) <=>
            \E s \in 1 .. Len(job.argvv) :
               job.argvv[s] # <<>> /\ job.argvv[s][1] \in {Str_exit, Str_die}
       /\ \A s \in Stages : ~Alive(child[s])
  /\ ~Returned => action = EXEC_CONTINUE

\* a three-stage pipeline with exit as its middle stage returned EXEC_EXIT
C4_Witness ==
  /\ Returned /\ N = 3 /\ Stage(1) = <<Str_exit>>
  /\ action = EXEC_EXIT /\ call.forks = 3

\* C5: a job of exactly one stage whose command is a builtin forks no child,
\* its builtin body runs in the engine's process unless the redirection
\* failed, and after a successful cd the engine's working directory is the
\* directory named.
C5_SingleBuiltinInProcess ==
  (Returned /\ Len(job.argvv) = 1 /\ job.argvv[1] # <<>>
            /\ job.argvv[1][1] \in BuiltinNames)
    => /\ call.forks = 0
       /\ \A s \in Stages : child[s].st = "none"
       /\ call.ran <=> fp.redir_error = 0
       /\ (job.argvv[1][1] = Str_cd /\ Len(job.argvv[1]) = 2
           /\ job.argvv[1][2] \in Dirs /\ fp.redir_error = 0)
             => (cwd = job.argvv[1][2] /\ cmd_status = 0)

\* cd /b returned and moved the engine from /a to /b
C5_Witness ==
  /\ Returned /\ job.argvv = << <<Str_cd, DirB>> >>
  /\ call.cwd0 = DirA /\ cwd = DirB /\ call.forks = 0 /\ call.ran


SingleBuiltinJob ==
  /\ Len(job.argvv) = 1 /\ job.argvv[1] # <<>>
  /\ job.argvv[1][1] \in BuiltinNames

Redirected == job.infile # NULL \/ job.outfile # NULL

SameStdio ==
  /\ fds[STDIN_FILENO] = call.fds0[STDIN_FILENO]
  /\ fds[STDOUT_FILENO] = call.fds0[STDOUT_FILENO]

\* C6 as stated: after a single builtin with a redirect, the engine's
\* standard input and output are the open files they were before the call,
\* for every outcome, the failure of any descriptor duplication included.
C6_Original ==
  (Returned /\ SingleBuiltinJob /\ Redirected) => SameStdio

\* C7 as stated: a builtin that ran in a forked child of a pipeline made the
\* child exit with the builtin's own status, so a pipeline whose last stage
\* is a failing builtin reports a nonzero status.
C7_Original ==
  /\ \A s \in Stages :
       (N >= 2 /\ child[s].started /\ Gone(child[s])
               /\ Stage(s)[1] \in BuiltinNames)
         => child[s].ws = Exited(run_builtin_child(Stage(s), child[s].cwd).rc)
  /\ (Returned /\ AllForked /\ child[N - 1].started /\ child[N - 1].wrc = 0
               /\ Stage(N - 1)[1] = Str_die)
         => cmd_status # 0

\* C8 as stated: when creating a pipe, forking a stage or an empty stage
\* fails run_pipeline, then on return every pipe descriptor created by the
\* call is closed, every forked child has been waited for, no further stage
\* was forked and the status is nonzero.
C8_Original ==
  (Returned /\ N >= 2 /\ pl.fail # "none")
    => /\ HoldsNoPipe(fds)
       /\ \A s \in Stages : child[s].st \in {"none", "reaped"}
       /\ \A s \in Stages : child[s].st = "reaped" => child[s].waited
       /\ call.forks = pl.i
       /\ cmd_status # 0

\* the child's standard input is the read end of a pipe of the call
StdinPiped(s) == N >= 2 /\ s > 0

\* C9: with input_is_tty false, every forked child that started its command
\* and whose standard input is neither piped from the previous stage nor
\* redirected from a file has the null source as standard input, and its
\* read of standard input is never blocked.
C9_BatchStdinNull ==
  ~input_is_tty =>
    \A s \in Stages :
      (child[s].started /\ ~StdinPiped(s) /\ ~(N = 1 /\ job.infile # NULL))
        => /\ child[s].cmdFds[STDIN_FILENO] = DevNull
           /\ Alive(child[s]) => CanReadEOF(child[s])

\* in batch mode a single cat without redirection read end-of-file from the
\* null source, exited with 0 and execute_job returned
C9_Witness ==
  /\ ~input_is_tty /\ Returned
  /\ job = MkJob(<< <<Str_cat>> >>, NULL, NULL)
  /\ child[0].cmdFds[STDIN_FILENO] = DevNull
  /\ child[0].ws = Exited(0) /\ child[0].wrc = 0 /\ cmd_status = 0

IsPipeOfCall(o) ==
  \E q \in 1 .. Len(pl.pipes) : o \in {PipeR(pl.pipes[q].id), PipeW(pl.pipes[q].id)}

\* C10: in an N-stage pipeline, when child i starts its command its standard
\* input is the read end of pipe i-1 if i > 0, its standard output is the
\* write end of pipe i if i < N-1, and it holds no other descriptor of any
\* of the N-1 pipes.
C10_ChildWiring ==
  \A s \in Stages :
    (N >= 2 /\ child[s].started) =>
      LET t == child[s].cmdFds IN
      /\ s > 0 => t[STDIN_FILENO] = PipeR(pl.pipes[s].id)
      /\ s = 0 => ~IsPipeOfCall(t[STDIN_FILENO])
      /\ s < N - 1 => t[STDOUT_FILENO] = PipeW(pl.pipes[s + 1].id)
      /\ s = N - 1 => ~IsPipeOfCall(t[STDOUT_FILENO])
      /\ \A f \in FdRange \ {STDIN_FILENO, STDOUT_FILENO} : ~IsPipeOfCall(t[f])

\* the middle stage of a three-stage pipeline runs its program between the
\* two pipes
C10_Witness ==
  /\ N = 3 /\ child[1].st = "execed"
  /\ child[1].cmdFds[STDIN_FILENO] = PipeR(pl.pipes[1].id)
  /\ child[1].cmdFds[STDOUT_FILENO] = PipeW(pl.pipes[2].id)
  /\ child[1].fds = child[1].cmdFds

\* C13 as stated: when a job of several stages carries redirection, the
\* command of stage 0 starts with the input file as standard input and the
\* command of the last stage starts with the output file as standard output.
C13_Original ==
  N >= 2 =>
    /\ (job.infile # NULL /\ child[0].started)
         => child[0].cmdFds[STDIN_FILENO] = FileR(job.infile)
    /\ (job.outfile # NULL /\ child[N - 1].started)
         => child[N - 1].cmdFds[STDOUT_FILENO] = FileW(job.outfile)

\* a job of one stage whose command is no builtin and resolves to no
\* executable file
UnresolvableJob ==
  /\ Len(job.argvv) = 1 /\ job.argvv[1] # <<>>
  /\ job.argvv[1][1] \notin BuiltinNames
  /\ resolve_program_path(job.argvv[1][1]) \notin Executables

SingleDieJob ==
  /\ Len(job.argvv) = 1 /\ job.argvv[1] # <<>> /\ job.argvv[1][1] = Str_die

C20_CwdFrame ==
  pc # "idle" =>
    \/ cwd = call.cwd0
    \/ /\ Len(job.argvv) = 1
       /\ Len(job.argvv[1]) = 2
       /\ job.argvv[1][1] = Str_cd
       /\ job.argvv[1][2] \in Dirs
       /\ cwd = job.argvv[1][2]
       /\ call.ran /\ fp.status = 0

\* the pipeline cd /b | ls returned, its cd stage ran in a child, and the
\* engine is still in /a
C20_Witness ==
  /\ Returned /\ N = 2 /\ Stage(0) = <<Str_cd, DirB>>
  /\ child[0].started /\ child[0].waited
  /\ call.cwd0 = DirA /\ cwd = DirA

\* every stage of the pipeline was forked
ForksDone == N >= 2 /\ pl.fail = "none" /\ pl.i = N

\* every forked stage finished its descriptor wiring (or is gone)
AllWired == \A s \in 0 .. N - 1 : child[s].started \/ Gone(child[s])

Parsed == sess.pc = "parsed"

\* C12 as stated: every Job that parse_line returns with success and with
\* more than one stage has neither an input-redirect nor an output-redirect
\* filename.
C12_Original ==
  (Parsed /\ parsed.ret = 1 /\ parsed.job.num_procs > 1)
    => (parsed.job.infile = NULL /\ parsed.job.outfile = NULL)

\* arr is a NULL-terminated argument array with at least one argument
WellFormedArgv(arr) ==
  /\ Len(arr) >= 2
  /\ arr[Len(arr)] = NULL
  /\ \A a \in 1 .. Len(arr) - 1 : arr[a] # NULL /\ arr[a] # <<>>

\* C14: every Job that parse_line returns with 1 has at least one stage,
\* and each of its stages is a NULL-terminated argument array with at least
\* one argument.
C14_StagesNonEmpty ==
  (Parsed /\ parsed.ret = 1) =>
    /\ parsed.job.num_procs >= 1
    /\ Len(parsed.job.argvv) = parsed.job.num_procs
    /\ \A s \in 1 .. Len(parsed.job.argvv) : WellFormedArgv(parsed.job.argvv[s])

\* the line "ls | ls in" parsed to two stages, the second with two arguments
C14_Witness ==
  /\ Parsed /\ parsed.ret = 1
  /\ line = JoinWords(<<Str_ls, Str_bar, Str_ls, File_in>>)
  /\ parsed.job.argvv = << <<Str_ls, NULL>>, <<Str_ls, File_in, NULL>> >>

\* the step hands a line to parse_line
LineHandled == sess'.nlines = sess.nlines + 1

\* the step calls execute_job
JobEntered == pc = "idle" /\ pc' # "idle"

\* execute_job returns to the session loop in the step
JobLeft == pc = "returned" /\ pc' = "idle"

\* C15: a line that parsed with success and was accepted is executed iff
\* its condition is And and the last exit status is 0, or Or and the last
\* exit status is not 0, or it has no condition; when execute_job returns,
\* the last exit status becomes the status it reported.
C15_ConditionalExecution ==
  /\ [][ (LineHandled /\ parsed'.ret = 1
            /\ (sess.have_seen_command \/ parsed'.job.cond = COND_NONE))
          => /\ JobEntered <=>
                  \/ parsed'.job.cond = COND_NONE
                  \/ parsed'.job.cond = COND_AND /\ sess.last_exit_status = 0
                  \/ parsed'.job.cond = COND_OR /\ sess.last_exit_status # 0
             /\ JobEntered => job' = EngineJob(parsed'.job) ]_vars
  /\ [][ JobLeft => sess'.last_exit_status = cmd_status ]_vars

\* after ls succeeded, "and nf" was executed and left the status 127
C15_Witness ==
  /\ line = Line_and_nf /\ sess.decided = "exec" /\ sess.prev = 0
  /\ pc = "idle" /\ sess.nexec = 2 /\ sess.last_exit_status = NOT_FOUND_STATUS

\* C16: a line that parse_line rejects with -1 is not passed to execute_job
\* (the engine is not entered, no child is created, no builtin runs), and
\* the last exit status is nonzero from then on until the next line.
C16_SyntaxErrorNotExecuted ==
  /\ [][ (LineHandled /\ parsed'.ret = -1)
          => /\ ~JobEntered
             /\ UNCHANGED <<pc, job, child, call, cwd, fds, cmd_status, action>>
             /\ sess'.nexec = sess.nexec
             /\ sess'.last_exit_status # 0 ]_vars
  /\ [](sess.decided = "syntax" =>
          (parsed.ret = -1 /\ pc = "idle" /\ sess.last_exit_status # 0))

\* after ls succeeded the line "|" was rejected: the status is 1 and
\* execute_job was called once, for ls
C16_Witness ==
  /\ line = Line_bar /\ sess.decided = "syntax" /\ sess.prev = 0
  /\ sess.last_exit_status = 1 /\ sess.nexec = 1 /\ parsed.ret = -1

\* C17 as stated: the session loop stops with input left only after it
\* executed a job that contains a stage named exit or die (the loss of the
\* input by a failing read aside).
C17_Original ==
  (sess.pc = "done" /\ sess.input # <<>> /\ sess.ended # "read_error")
    => (sess.ended \in {"exit", "die"} /\ (has_exit(job) \/ has_die(job)))

\* a single stage `which <name>` with the name of a builtin
WhichBuiltinJob ==
  /\ N = 1 /\ Len(Stage(0)) = 2
  /\ Stage(0)[1] = Str_which /\ is_builtin(Stage(0)[2])

\* C21: `which <name>` with the name of a builtin writes nothing to
\* standard output and returns a nonzero status with EXEC_CONTINUE, and no
\* process is created for it.
C21_WhichBuiltinFails ==
  (pc = "returned" /\ WhichBuiltinJob)
    => /\ cmd_status # 0
       /\ action = EXEC_CONTINUE
       /\ fp.out = <<>>
       /\ call.forks = 0
       /\ resolve_program_path(Stage(0)[2]) = NULL

\* `which die` ran in the engine's process and returned
C21_Witness ==
  /\ pc = "returned" /\ N = 1 /\ Stage(0) = <<Str_which, Str_die>>
  /\ call.ran /\ cmd_status = 1 /\ job.infile = NULL /\ job.outfile = NULL

\* a single stage with a command and an input redirect that cannot be opened
UnreadableInputJob ==
  /\ N = 1 /\ Stage(0) # <<>>
  /\ job.infile # NULL /\ job.infile \notin Readable

\* C22: when the input-redirect target of a single-stage job cannot be
\* opened, no builtin body runs in the engine, no child starts its command
\* or executes a program, and execute_job returns a nonzero status.
C22_UnreadableInput ==
  (pc # "idle" /\ UnreadableInputJob)
    => /\ ~call.ran
       /\ ~child[0].started /\ child[0].st # "execed" /\ child[0].path = NULL
       /\ pc = "returned" => cmd_status # 0

\* `cd b < miss` returned 1 on the in-process path and left the engine
\* where it was
C22_Witness ==
  /\ pc = "returned" /\ UnreadableInputJob /\ cmd_status = 1
  /\ Stage(0) = <<Str_cd, DirB>> /\ fp.redir_error # 0
  /\ call.forks = 0 /\ cwd = call.cwd0

\* the part of a line before its first '#'
BeforeHash(l) ==
  IF \E p \in 1 .. Len(l) : l[p] = "#"
    THEN SubSeq(l, 1, (CHOOSE p \in 1 .. Len(l) :
                         l[p] = "#" /\ \A q \in 1 .. p - 1 : l[q] # "#") - 1)
    ELSE l

\* C23 as stated: the tokens of a line are the tokens of its part before
\* the first '#', no token contains '#', and the line parses as that part.
C23_Original ==
  Parsed =>
    /\ simple_tokenize(line) = simple_tokenize(BeforeHash(line))
    /\ \A t \in 1 .. Len(simple_tokenize(line)) :
         \A c \in 1 .. Len(simple_tokenize(line)[t]) :
           simple_tokenize(line)[t][c] # "#"
    /\ parsed = parse_line(BeforeHash(line), EmptyJob)

\* a line with a space before and after each of its operator characters
RECURSIVE SpaceOut(_)
SpaceOut(l) ==
  IF l = <<>> THEN <<>>
  ELSE IF Head(l) \in {"|", "<", ">"}
    THEN <<" ", Head(l), " ">> \o SpaceOut(Tail(l))
  ELSE <<Head(l)>> \o SpaceOut(Tail(l))

IsOperatorChar(c) == c \in {"|", "<", ">"}

IsOperatorToken(t) == Len(t) = 1 /\ IsOperatorChar(t[1])

\* the operator characters of a sequence of characters, as tokens
OperatorsOf(l) ==
  LET ops == SelectSeq(l, IsOperatorChar) IN [k \in 1 .. Len(ops) |-> <<ops[k]>>]

\* C24: every token is not empty, a token that holds '|', '<' or '>' is
\* that one character, the operator characters before the first '#' are,
\* in order, the first operator tokens, and a line tokenizes and parses as
\* the same line with whitespace around each operator character.
C24_OperatorTokens ==
  Parsed =>
    LET tokens == simple_tokenize(line)
        ops    == OperatorsOf(BeforeHash(line))
        optoks == SelectSeq(tokens, IsOperatorToken)
    IN /\ \A t \in 1 .. Len(tokens) :
            /\ Len(tokens[t]) >= 1
            /\ (\E c \in 1 .. Len(tokens[t]) : IsOperatorChar(tokens[t][c]))
                 => Len(tokens[t]) = 1
       /\ Len(ops) <= Len(optoks)
       /\ SubSeq(optoks, 1, Len(ops)) = ops
       /\ tokens = simple_tokenize(SpaceOut(line))
       /\ parsed = parse_line(SpaceOut(line), EmptyJob)

\* the line "a|a>a" parsed to the stages a and a with the output redirect a
C24_Witness ==
  /\ Parsed /\ line = <<"a", "|", "a", ">", "a">>
  /\ simple_tokenize(line) = << <<"a">>, <<"|">>, <<"a">>, <<">">>, <<"a">> >>
  /\ parsed.ret = 1 /\ parsed.job.num_procs = 2 /\ parsed.job.outfile = <<"a">>

\* parse_line returned and no allocation failed
LoopParsed == tok.pc = "parsed" /\ ~tok.nomem

\* C25 as stated: a stage of up to 64 arguments, the command name
\* included, is accepted, and a stage of more than 64 arguments is rejected.
C25_Original ==
  LoopParsed =>
    \A n \in LimitArgs :
      (line = ArgLine(n) \/ line = <<"a", "|">> \o ArgLine(n))
        => /\ n <= 64 => parsed.ret = 1
           /\ n > 64 => parsed.ret = -1

\* C26 as stated: the tokenizer writes only to the indices 0..1023 of the
\* token array, whatever the number of tokens of the line.
C26_Original ==
  tok.pc # "none" => (tok.top <= MAX_TOKENS - 1 /\ tok.pc # "crashed")

\* the positions of the tokens '<' and '>' that are redirections: a token
\* that follows a redirection is its filename, whatever it is
RECURSIVE RedirectPositions(_, _)
RedirectPositions(tokens, i) ==
  IF i > Len(tokens) THEN {}
  ELSE IF tokens[i] \in {Str_lt, Str_gt}
    THEN {i} \cup RedirectPositions(tokens, i + 2)
  ELSE RedirectPositions(tokens, i + 1)

\* two redirections of the same direction, each followed by a filename
TwoRedirections(tokens) ==
  \E i, j \in RedirectPositions(tokens, 1) :
    /\ i < j /\ tokens[i] = tokens[j] /\ j + 1 <= Len(tokens)

\* C27: a line with two '<' redirections or two '>' redirections, each
\* followed by a filename token, makes parse_line return -1, whatever the
\* stages and wherever the redirections stand.
C27_DoubleRedirectRejected ==
  (Parsed /\ TwoRedirections(simple_tokenize(line)))
    => (parsed.ret = -1 /\ parsed.job = EmptyJob)

\* "< in < in ls": both redirections stand before the command
C27_Witness ==
  /\ Parsed /\ parsed.ret = -1
  /\ line = JoinWords(<<Str_lt, File_in, Str_lt, File_in, Str_ls>>)
  /\ TwoRedirections(simple_tokenize(line))

\* the words of ParseWords that are no operators
PlainWords == ParseWords \ {Str_bar, Str_lt, Str_gt}

\* C28: for all words cmd, in, out the lines "cmd < in > out" and
\* "cmd > out < in" parse to the same result, and when cmd is a command
\* name to the single stage cmd with the input redirect in and the output
\* redirect out.
C28_RedirectOrder ==
  (Parsed /\ \E p \in 1 .. Len(line) : line[p] = "<" /\ p < Len(line) - 3) =>
    \A c \in PlainWords, i \in PlainWords, o \in PlainWords :
      line = JoinWords(<<c, Str_lt, i, Str_gt, o>>)
        => /\ parsed = parse_line(JoinWords(<<c, Str_gt, o, Str_lt, i>>), EmptyJob)
           /\ ({c, i, o} \cap {<<"#">>} = {} /\ c \notin {Str_and, Str_or})
                => /\ parsed.ret = 1
                   /\ parsed.job.cond = COND_NONE
                   /\ parsed.job.num_procs = 1
                   /\ parsed.job.argvv = << <<c, NULL>> >>
                   /\ parsed.job.infile = i
                   /\ parsed.job.outfile = o

\* "ls < in > or" parsed to ls with the redirects in and or
C28_Witness ==
  /\ Parsed /\ parsed.ret = 1
  /\ line = JoinWords(<<Str_ls, Str_lt, File_in, Str_gt, Str_or>>)
  /\ parsed.job.infile = File_in /\ parsed.job.outfile = Str_or
  /\ parsed = parse_line(JoinWords(<<Str_ls, Str_gt, Str_or, Str_lt, File_in>>), EmptyJob)

CondOf(word) == IF word = Str_and THEN COND_AND ELSE COND_OR

\* C29: a line whose only token is and / or makes parse_line return -1; a
\* line of and / or followed by a command that parses with success parses
\* with success to the job of that command with the matching condition, the
\* conditional word being none of its arguments.
C29_LeadingConditional ==
  Parsed =>
    LET tokens == simple_tokenize(line) IN
    (Len(tokens) >= 1 /\ tokens[1] \in {Str_and, Str_or})
      => /\ Len(tokens) = 1 => parsed.ret = -1
         /\ (Len(tokens) > 1 /\ tokens[2] \notin {Str_and, Str_or})
              => LET rest == parse_line(JoinWords(Tail(tokens)), EmptyJob) IN
                 rest.ret = 1
                   => /\ parsed.ret = 1
                      /\ rest.job.cond = COND_NONE
                      /\ parsed.job = [rest.job EXCEPT !.cond = CondOf(tokens[1])]

\* "or ls in" parsed to the stage ls in with the condition Or
C29_Witness ==
  /\ Parsed /\ parsed.ret = 1
  /\ line = JoinWords(<<Str_or, Str_ls, File_in>>)
  /\ parsed.job.cond = COND_OR
  /\ parsed.job.argvv = << <<Str_ls, File_in, NULL>> >>

\* some stage after a '|' has and / or as its first word; after is TRUE
\* from a '|' to the first word of its stage
RECURSIVE ConditionalStage(_, _, _)
ConditionalStage(tokens, i, after) ==
  IF i > Len(tokens) THEN FALSE
  ELSE IF tokens[i] = Str_bar THEN ConditionalStage(tokens, i + 1, TRUE)
  ELSE IF tokens[i] \in {Str_lt, Str_gt} THEN ConditionalStage(tokens, i + 2, after)
  ELSE IF after /\ tokens[i] \in {Str_and, Str_or} THEN TRUE
  ELSE ConditionalStage(tokens, i + 1, FALSE)

\* C30: a line in which the first word of a stage after a '|' is and / or
\* makes parse_line return -1, for every such stage.
C30_ConditionalAfterPipe ==
  (Parsed /\ ConditionalStage(simple_tokenize(line), 1, FALSE))
    => (parsed.ret = -1 /\ parsed.job = EmptyJob)

\* "ls | ls | or": the conditional is the first word of the third stage
C30_Witness ==
  /\ Parsed /\ parsed.ret = -1
  /\ line = JoinWords(<<Str_ls, Str_bar, Str_ls, Str_bar, Str_or>>)
  /\ ConditionalStage(simple_tokenize(line), 1, FALSE)

\* a single-stage exit or die whose redirection could not be set up
FailedRedirectExitJob ==
  /\ N = 1 /\ Stage(0) # <<>> /\ Stage(0)[1] \in {Str_exit, Str_die}
  /\ fp.redir_error # 0

\* C37: when the redirection of a single-stage exit or die cannot be set
\* up, the body of the builtin never runs (die writes no message), the
\* status is 1, and execute_job still returns EXEC_EXIT for exit and
\* EXEC_DIE for die.
C37_FailedRedirectStillEnds ==
  (pc = "returned" /\ FailedRedirectExitJob)
    => /\ ~call.ran /\ fp.err = <<>> /\ fp.out = <<>>
       /\ call.forks = 0
       /\ cmd_status = 1
       /\ action = IF Stage(0)[1] = Str_die THEN EXEC_DIE ELSE EXEC_EXIT

\* `die a b < miss` returned EXEC_DIE with status 1 and no message
C37_Witness ==
  /\ pc = "returned" /\ FailedRedirectExitJob
  /\ Stage(0) = <<Str_die, Str_a, Str_b>> /\ job.infile = File_miss
  /\ action = EXEC_DIE /\ cmd_status = 1 /\ fp.err = <<>>

\* a job with a stage named exit and a stage named die
ExitAndDieJob == has_exit(job) /\ has_die(job)

\* C38: a job that has both an exit stage and a die stage, in either
\* order, returns EXEC_DIE.
C38_DiePrecedence ==
  (pc = "returned" /\ ExitAndDieJob) => action = EXEC_DIE

\* `exit | die a` returned EXEC_DIE
C38_Witness ==
  /\ pc = "returned" /\ N = 2
  /\ Stage(0) = <<Str_exit>> /\ Stage(1) = <<Str_die, Str_a>>
  /\ action = EXEC_DIE

\* the child of stage i left its fork branch into the engine's code
ChildEscaped(c) == c.st \notin {"none", "forked", "execed", "zombie", "reaped"}

\* C40: a forked child never returns into the code of the engine: the step
\* it takes from its fork branch ends in the execution of a program or in
\* its own termination, and changes nothing of the engine.
C40_ChildNeverReturns ==
  [][\A i \in Stages :
       /\ ~ChildEscaped(child'[i])
       /\ (child[i].st = "forked" /\ child'[i] # child[i])
            => /\ child'[i].st = "execed" \/ Gone(child'[i])
               /\ UNCHANGED <<pc, cwd, fds, job, cmd_status, action, fp, pl, call>>]_vars

\* in one pipeline a child executed its program and the child of a builtin
\* terminated itself with code 0
C40_Witness ==
  /\ N = 2
  /\ child[0].st = "execed" /\ child[0].path # NULL
  /\ Gone(child[1]) /\ child[1].started /\ child[1].path = NULL
  /\ is_builtin(Stage(1)[1]) /\ call.forks = 2

\* the byte '\0'
NUL_BYTE == "NUL"

\* the bytes of the buffer that holds the line
LineBuffer ==
  IF tok.nul = 0 THEN line ELSE [line EXCEPT ![tok.nul] = NUL_BYTE]

\* parse_line returned or free_job ran after it
LoopReturned == tok.pc \in {"parsed", "freed"}

\* C31 as stated: parse_line leaves the bytes of its line unchanged on
\* return; a second parse of the buffer after free_job gives the job of the
\* first; free_job leaves the job empty, so that a second call frees
\* nothing.
C31_Original ==
  /\ LoopReturned => LineBuffer = line
  /\ (tok.pc = "parsed" /\ tok.round = 2 /\ ~tok.nomem) => parsed = tok.first
  /\ tok.pc = "freed" => (parsed.job = EmptyJob /\ JobBlocks(parsed.job) = 0)

\* C32 as stated: whenever parse_line returns -1, for a syntax error or a
\* failed allocation in the tokenizer or the parser, the job is empty and
\* no block allocated during the call is still allocated.
C32_Original ==
  (tok.pc = "parsed" /\ parsed.ret = -1)
    => (parsed.job = EmptyJob /\ tok.alloc = 0)

\* the line has no token: it is empty or has only whitespace before its
\* end or its comment
NoTokenLine(l) ==
  \A p \in 1 .. Len(l) : isspace(l[p]) \/ \E q \in 1 .. p : l[q] = "#"

\* C33: for a line without a token parse_line calls no allocation, returns
\* 0 and leaves the job as it was; the session loop then executes nothing
\* and leaves the last exit status and the 'command seen' flag unchanged.
C33_EmptyLine ==
  /\ [](NoTokenLine(line) /\ tok.pc # "none"
          => /\ tok.mallocs = 0 /\ tok.alloc = 0 /\ tok.tokens = <<>>
             /\ tok.pc \in {"loop", "done", "parsed", "freed"}
             /\ tok.pc = "parsed" => parsed = NotParsed)
  /\ [][ (LineHandled /\ NoTokenLine(line'))
          => /\ parsed'.ret = 0 /\ parsed'.job = EmptyJob
             /\ ~JobEntered
             /\ UNCHANGED <<pc, job, child, call, cwd, fds, cmd_status, action>>
             /\ sess'.nexec = sess.nexec
             /\ sess'.last_exit_status = sess.last_exit_status
             /\ sess'.have_seen_command = sess.have_seen_command ]_vars

\* after the rejected first line "and nf" a final line of one space left
\* the status 1 and the flag unset, and the session ended without a job
C33_Witness ==
  /\ line = Line_blank /\ sess.decided = "empty" /\ parsed.ret = 0
  /\ sess.pc = "done" /\ sess.ended = "eof"
  /\ sess.nlines = 2 /\ sess.nexec = 0
  /\ sess.last_exit_status = 1 /\ ~sess.have_seen_command

\* the bytes of the input that no call of parse_line got yet: the part of
\* the buffer from line_start on and what is still to be read; the final
\* line takes the rest of the buffer, and the newline that ends it when
\* the line stops at the size of the buffer
Unparsed ==
  IF sess.pc \in {"final_exec", "done"}
    THEN IF sess.ended = "full" /\ sess.input # <<>> /\ sess.input[1] = "\n"
           THEN Tail(sess.input) ELSE sess.input
    ELSE SubSeq(sess.buffer, sess.line_start + 1, Len(sess.buffer)) \o sess.input

\* the first line of the bytes r and the bytes after it
FirstLine(r) == SubSeq(r, 1, NextNewline(r, 0))
AfterFirstLine(r) == SubSeq(r, NextNewline(r, 0) + 2, Len(r))

\* the session ended, or ends in this step, by exit, die or a failed read
EndedEarly(ss) == ss.ended \in {"exit", "die", "read_error"}

\* C34 as stated: unless a job ends the session (or a read fails), every
\* step of the loop leaves the unparsed input alone or hands exactly its
\* first line to parse_line, whatever the reads return, and when the loop
\* is done no byte of the input is left unparsed.
C34_Original ==
  /\ [][ ~EndedEarly(sess')
          => \/ ~LineHandled /\ Unparsed' = Unparsed
             \/ /\ LineHandled
                /\ line' = FirstLine(Unparsed)
                /\ Unparsed' = AfterFirstLine(Unparsed) ]_vars
  /\ []((sess.pc = "done" /\ ~EndedEarly(sess)) => Unparsed = <<>>)

\* the line that parsed with success starts with and / or
LeadingConditional(pr) == pr.ret = 1 /\ pr.job.cond # COND_NONE

\* C35: a line with a leading and / or is rejected (no job, status 1, flag
\* untouched) exactly when no earlier line of the session was executed --
\* the first accepted line has no condition, so it is executed --, whatever
\* syntax errors and rejected lines came before; a line without a leading
\* conditional is never rejected.
C35_FirstCommandRule ==
  /\ [][ (LineHandled /\ LeadingConditional(parsed'))
          => /\ (sess'.decided = "reject") <=> (sess.nexec = 0)
             /\ (sess.nexec = 0)
                  => /\ ~JobEntered /\ sess'.nexec = 0
                     /\ sess'.last_exit_status = 1
                     /\ ~sess'.have_seen_command ]_vars
  /\ [][ (LineHandled /\ ~LeadingConditional(parsed'))
          => /\ sess'.decided # "reject"
             /\ parsed'.ret # 1 => (sess'.have_seen_command = sess.have_seen_command) ]_vars

\* after the syntax error "|" on the first line, "or ls" was rejected
C35_Witness ==
  /\ line = Line_or_ls /\ sess.decided = "reject" /\ sess.prev = 1
  /\ sess.nlines = 2 /\ sess.nexec = 0
  /\ sess.last_exit_status = 1 /\ ~sess.have_seen_command

\* the conditional evaluator skips the job of the line that was parsed
SkippedJob(pr, ss) ==
  /\ pr.ret = 1 /\ ss.have_seen_command
  /\ \/ pr.job.cond = COND_AND /\ ss.last_exit_status # 0
     \/ pr.job.cond = COND_OR /\ ss.last_exit_status = 0

\* C36: a skipped job changes nothing of the engine (no call, no process,
\* no builtin), keeps the last exit status and does not end the session by
\* exit or die; when execute_job returned EXEC_EXIT or EXEC_DIE the loop is
\* done, and a loop that is done parses and executes nothing.
C36_SkipAndEnd ==
  /\ [][ (LineHandled /\ SkippedJob(parsed', sess))
          => /\ ~JobEntered /\ sess'.nexec = sess.nexec
             /\ UNCHANGED <<pc, job, child, call, cwd, fds, cmd_status, action, fp>>
             /\ sess'.last_exit_status = sess.last_exit_status
             /\ sess'.ended = sess.ended /\ sess'.ended \notin {"exit", "die"}
             /\ sess'.shell_exit_status = sess.shell_exit_status
             /\ sess'.pc = "done" => sess.pc = "final" ]_vars
  /\ [][ (JobLeft /\ action \in {EXEC_EXIT, EXEC_DIE})
          => sess'.pc = "done" /\ sess'.ended \in {"exit", "die"} ]_vars
  /\ [][ sess.pc = "done" => ~LineHandled /\ ~JobEntered /\ UNCHANGED <<sess, line>> ]_vars

\* after ls succeeded, "or die a" was skipped: one call of execute_job, the
\* status 0, the session not ended by die
C36_Witness ==
  /\ line = Line_or_die /\ sess.decided = "skip" /\ sess.prev = 0
  /\ sess.nlines = 2 /\ sess.nexec = 1 /\ sess.last_exit_status = 0
  /\ sess.pc = "done" /\ sess.ended = "eof" /\ sess.ret = EXIT_SUCCESS

\* C39: the loop returns the failure code iff it ended on a job that
\* returned EXEC_DIE; after EXEC_EXIT or at the end of the input it returns
\* the success code, whatever the last exit status is.
C39_ReturnValue ==
  sess.pc = "done"
    => /\ sess.ret \in {EXIT_SUCCESS, EXIT_FAILURE}
       /\ (sess.ret = EXIT_FAILURE) <=> (sess.ended = "die")
       /\ sess.ended = "die" => action = EXEC_DIE
       /\ sess.ended = "exit" => action = EXEC_EXIT

\* the session ended at the end of its input after the command nf failed
\* with 127, and returned the success code
C39_Witness ==
  /\ sess.pc = "done" /\ sess.ended = "eof" /\ sess.decided = "exec"
  /\ sess.last_exit_status = NOT_FOUND_STATUS /\ sess.ret = EXIT_SUCCESS
====
